---- MODULE Spec2Model ----
(***************************************************************************)
(* MinerUVision: the local GPU scheduler (services/mineru_service.py,      *)
(* process_locally), the remote dispatcher (process_remotely), the         *)
(* combined-task orchestrator (tasks/combined_task_consumer.py) and the    *)
(* core_files key normalisation (utils/file_utils.py).                     *)
(*                                                                         *)
(* Concurrency is asyncio's: coroutines of one event loop.  A coroutine    *)
(* keeps the loop until it reaches an await that really suspends.  In      *)
(* process_locally and process_remotely the only such awaits are           *)
(* asyncio.sleep and an acquire of a semaphore whose value is 0; the       *)
(* asyncio locks are never held across a suspension, so acquiring them     *)
(* never suspends, and subprocess.Popen.wait / requests.post are blocking  *)
(* calls that keep the loop.  `running` is the coroutine that owns the     *)
(* loop.                                                                   *)
(***************************************************************************)
EXTENDS Integers, Sequences, FiniteSets, TLC

\* ------------------------------------------------------------------ bounds
\* number of process_locally / process_remotely activations (request ids)
NumJobs == 2
\* largest number of accelerators GPUtil.getGPUs() reports
MaxGpus == 2

\* number of entries of config.REMOTE_DEVICES
NumRemote == 2
\* largest number of entries of a core_files dict
MaxFiles == 3

Jobs == 1..NumJobs

\* gpu_semaphore = None, and "no coroutine owns the event loop"
NoJob == 0
\* selected_gpu_id = None
NoGpu == -1

\* memoryTotal values (MB) the driver may report; 0 is a device that
\* init_gpu_resources filters out
Totals == {0, 16000, 23040}
\* memoryFree readings (MB)
FreeLevels == {10000, 12000, 14000, 16127}

\* every list GPUtil.getGPUs() may return: hw[i] is the memoryTotal of the
\* device whose id is i-1
Hardware == UNION {[1..n -> Totals] : n \in 0..MaxGpus}

\* the hosts of the concurrency runs: equal cards, the first one possibly
\* unusable
UniformHardware ==
    {h \in UNION {[1..n -> {0, 16000}] : n \in 0..MaxGpus} :
        \A i \in 2..Len(h) : h[i] = 16000}

VARIABLES
    hw,                   \* what GPUtil.getGPUs() reports (fixed per behaviour)
    torch_cuda,           \* torch.cuda.is_available() in the service process
                          \* (fixed per behaviour)
    gpu_status,           \* mineru_service.gpu_status: the device table
    sync_gpu_lock,        \* mineru_service.sync_gpu_lock: the job inside
                          \* init_gpu_resources' async with block, or NoJob
    gpu_semaphore,        \* mineru_service.gpu_semaphore: id of the current
                          \* semaphore object (the job whose discovery made it)
    sem_value,            \* value of the semaphore object made by job j
    running,              \* the coroutine that owns the event loop, or NoJob
    pc,                   \* position of each process_locally activation
    min_required_memory,  \* local of process_locally
    my_sem,               \* the semaphore object the activation's async with holds
    holds_token,          \* the activation is inside async with gpu_semaphore
    attempt,              \* loop variable of the selection loop
    available_gpus,       \* local of process_locally
    selected_gpu_id,      \* local of process_locally
    wait_time,            \* last wait_time slept
    proc,                 \* what the extraction subprocess did
    result,               \* returned dict's status, or the exception raised
    result_gpu_id,        \* returned dict's gpu_id
    pinned,               \* the card the extraction subprocess computes on
    error_message,        \* returned dict's error_message, as its parts
    cache_release,        \* what releasing the CUDA cache in the finally block did
    REMOTE_DEVICES,       \* config.REMOTE_DEVICES: the list of device dicts
    probed,               \* health_status of each device in the last sweep
                          \* (<<>> before the first)
    rpc,                  \* position of each process_remotely activation
    retries,              \* local of process_remotely
    device,               \* local of process_remotely: its device's name
    outcomes,             \* what each session.post of the activation did
    sleeps,               \* the delays the activation has slept, in order
    selections,           \* calls of get_available_remote_device it made
    rresult,              \* what the activation returns or raises
    core_files,           \* normalize_core_files: its argument, the entries
                          \* (key, url) in dict order
    normalized,           \* normalize_core_files: the dict it returns
    norm_done,            \* normalize_core_files has returned
    renormalized,         \* what normalize_core_files returns for the dict it
                          \* returned
    renorm_done,          \* that second call has returned
    variant,              \* which consumer runs: "combined", "extract",
                          \* "demo" (the consumer of demo.py), or
                          \* "none"
    queue,                \* the consumer's Redis task list (the tasks)
    enqueued,             \* the requests the intake layer has queued
    cpc,                  \* position of the consumer coroutine ("absent":
                          \* the run has no consumer, the calls are direct)
    task_data,            \* what the last blpop returned: "None", "task", or
                          \* "unset" before the first
    loop_sleep,           \* the delay the loop's except block is sleeping
    current,              \* the task the consumer is processing, or NoTask
    semaphore,            \* value of the consumer's asyncio.Semaphore(5)
    converted,            \* preprocessed["converted_to_pdf"]
    original_type,        \* preprocess_file's file_type of the current task
    extract_result,       \* extract_result["status"] of the current task
    image_result,         \* image_result["status"] of the current task
    merge_result,         \* merge_result["status"] of the current task
    error,                \* what failed in the current task, or "none"
    results,              \* the Redis result lists, by key: the records
                          \* pushed and not yet popped, in order
    implementation,       \* which convert_to_pdf runs: "pdf_utils"
                          \* (utils/pdf_utils.py, and its copy in demo.py),
                          \* "office_service", or "none"
    conv_pc,              \* position of the convert_to_pdf call
    conv_attempt,         \* its loop variable attempt
    conv_outcomes,        \* what each attempt made so far did
    conv_waits,           \* the seconds slept between each attempt and the
                          \* one after it
    conv_return,          \* the path it returns: "pdf_path", "None", or
                          \* "none" while it runs
    poll                  \* the last poll of a caller: the request polled,
                          \* the status returned, the request_id of the
                          \* record returned, and what the poll before it
                          \* returned when it was for the same request

localVars == <<hw, torch_cuda, gpu_status, sync_gpu_lock, gpu_semaphore, sem_value, pc,
               min_required_memory, my_sem, holds_token, attempt,
               available_gpus, selected_gpu_id, wait_time, proc, result,
               cache_release,
               error_message,
               pinned,
               result_gpu_id>>

remoteVars == <<REMOTE_DEVICES, probed, rpc, retries, device, outcomes, sleeps,
                selections, rresult>>

normVars == <<core_files, normalized, norm_done, renormalized, renorm_done>>

convertVars == <<implementation, conv_pc, conv_attempt, conv_outcomes,
                 conv_waits, conv_return>>

combinedVars == <<variant, queue, enqueued, cpc, task_data, loop_sleep,
                  current, semaphore, converted, original_type,
                  extract_result, image_result, merge_result, error, results,
                  poll>>

\* what the local scheduler's steps leave alone
notLocal == <<remoteVars, normVars, convertVars, combinedVars>>

\* what the remote dispatcher's steps leave alone
notRemote == <<localVars, normVars, convertVars, combinedVars>>

\* what normalize_core_files leaves alone
notNorm == <<running, localVars, remoteVars, convertVars, combinedVars>>

\* what the consumers' own steps leave alone
notCombined == <<running, localVars, remoteVars, normVars, convertVars>>

vars == <<running, localVars, remoteVars, normVars, convertVars, combinedVars>>

\* ------------------------------------------------------- program constants
\* max_attempts = 10
max_attempts == 10

\* ------------------------------------------------------------ discovery
RECURSIVE DiscoverFrom(_, _)
DiscoverFrom(h, i) ==
    IF i > Len(h) THEN <<>>
    ELSE (IF h[i] > 0
          THEN <<[id |-> i - 1, status |-> "idle", memory_total |-> h[i]]>>
          ELSE <<>>) \o DiscoverFrom(h, i + 1)

\* init_gpu_resources: the table built from GPUtil.getGPUs()
Discover(h) == DiscoverFrom(h, 1)

\* asyncio.Semaphore(gpu_count) if gpu_count > 0 else asyncio.Semaphore(0)
SemaphoreInit(gpu_count) == IF gpu_count > 0 THEN gpu_count ELSE 0

\* ------------------------------------------------------------ threshold
RECURSIVE SumTotal(_)
SumTotal(gs) ==
    IF gs = <<>> THEN 0 ELSE gs[1].memory_total + SumTotal(Tail(gs))

RECURSIVE Log2Floor(_)
Log2Floor(n) == IF n < 2 THEN 0 ELSE 1 + Log2Floor(n \div 2)

RECURSIVE Pow2(_)
Pow2(e) == IF e = 0 THEN 1 ELSE 2 * Pow2(e - 1)

\* The real-number value floor(a/n * 7/10).
FloorOfSeventyPercent(a, n) == (7 * a) \div (10 * n)

\* int((a / n) * 0.7) in IEEE-754 double arithmetic, for an integer sum a of
\* n <= 6 totals.  The double 0.7 is 0.7 - 0.4 * 2^-53.  When 7a/(10n) is not
\* an integer it is at least 1/(10n) away from one and the rounding errors
\* (below 2^-38 here) cannot move the product across it, so int() gives the
\* floor.  When it is an integer K = 7k (a/n = 10k), the exact product is
\* K - 4k * 2^-53, the doubles just below K are 2^(E-52) apart with
\* E = floor(log2 K), and round-to-nearest-even returns K unless
\* 4k * 2^-53 > 2^(E-53), i.e. 4k > 2^E; then it returns K - 2^(E-52) and
\* int() truncates to K - 1.
IntOfProduct(a, n) ==
    IF a % (10 * n) = 0 /\ a > 0
       /\ 4 * (a \div (10 * n)) > Pow2(Log2Floor(7 * (a \div (10 * n))))
    THEN FloorOfSeventyPercent(a, n) - 1
    ELSE FloorOfSeventyPercent(a, n)

\* avg_total_memory = sum(memory_total) / len(gpu_status);
\* min_required_memory = int(avg_total_memory * min_memory_ratio), else 12288
MinRequiredMemory(gs) ==
    IF gs # <<>> THEN IntOfProduct(SumTotal(gs), Len(gs)) ELSE 12288

\* ------------------------------------------------------------ selection
\* the live readings GPUtil can return: one per device id, at most its total
FreeReadings(h) ==
    {f \in [0..(Len(h) - 1) -> FreeLevels] :
        \A i \in 0..(Len(h) - 1) : h[i + 1] > 0 => f[i] <= h[i + 1]}

\* the device qualifies: idle, and its live free memory reaches the threshold
Qualifies_AnyFreeMemory(gpu, free, min_memory_mb) == gpu.status = "idle"

Qualifies(gpu, free, min_memory_mb) ==
    gpu.status = "idle" /\ free[gpu.id] >= min_memory_mb

\* get_available_gpus: (id, memoryFree) of the qualifying devices, table order
RECURSIVE get_available_gpus(_, _, _)
get_available_gpus(min_memory_mb, gs, free) ==
    IF gs = <<>> THEN <<>>
    ELSE (IF Qualifies(gs[1], free, min_memory_mb)
          THEN << <<gs[1].id, free[gs[1].id]>> >>
          ELSE <<>>) \o get_available_gpus(min_memory_mb, Tail(gs), free)

\* x goes before the elements whose key equals its own
RECURSIVE InsertDesc_TiesFirst(_, _)
InsertDesc_TiesFirst(x, s) ==
    IF s = <<>> THEN <<x>>
    ELSE IF s[1][2] > x[2] THEN <<s[1]>> \o InsertDesc_TiesFirst(x, Tail(s))
    ELSE <<x>> \o s

\* x goes behind every element whose key is >= its own
RECURSIVE InsertDesc(_, _)
InsertDesc(x, s) ==
    IF s = <<>> THEN <<x>>
    ELSE IF s[1][2] >= x[2] THEN <<s[1]>> \o InsertDesc(x, Tail(s))
    ELSE <<x>> \o s

\* available_gpus.sort(key=lambda x: x[1], reverse=True): stable, descending
RECURSIVE SortByFreeDesc(_)
SortByFreeDesc(s) ==
    IF s = <<>> THEN <<>>
    ELSE InsertDesc(s[Len(s)], SortByFreeDesc(SubSeq(s, 1, Len(s) - 1)))

\* for gpu in gpu_status: if gpu["id"] == id: gpu["status"] = st; break
RECURSIVE SetGpuStatus(_, _, _)
SetGpuStatus(gs, id, st) ==
    IF gs = <<>> THEN <<>>
    ELSE IF gs[1].id = id THEN <<[gs[1] EXCEPT !.status = st]>> \o Tail(gs)
    ELSE <<gs[1]>> \o SetGpuStatus(Tail(gs), id, st)

\* the finally block of process_locally: the device goes back to idle
\* whatever the subprocess did
ReleaseGpu_OnSuccessOnly(gs, id, outcome) ==
    IF outcome = "ok" THEN SetGpuStatus(gs, id, "idle") ELSE gs

ReleaseGpu(gs, id, outcome) == SetGpuStatus(gs, id, "idle")

GpuStatusOf(gs, id) ==
    IF \E i \in 1..Len(gs) : gs[i].id = id
    THEN gs[CHOOSE i \in 1..Len(gs) : gs[i].id = id].status
    ELSE "absent"

\* ---------------------------------------------------------- event loop
\* process.wait() is subprocess.Popen.wait: a blocking call, the coroutine
\* keeps the event loop while the subprocess runs
SubprocessWaitSuspends_Awaited == TRUE

SubprocessWaitSuspends == FALSE

\* GPUtil.getGPUs() is a plain call (it runs nvidia-smi and waits for it):
\* nothing inside init_gpu_resources' async with block suspends
DiscoverySuspends_Awaited == TRUE

DiscoverySuspends == FALSE

\* if not gpu_status: raise RuntimeError
NoDeviceCheck_Dropped(gs) == FALSE

NoDeviceCheck(gs) == gs = <<>>

\* wait_time = 15 * (attempt + 1), attempt being the loop variable of
\* range(max_attempts)
WaitTime_FromZero(attempt_index) == 15 * attempt_index

WaitTime(attempt_index) == 15 * (attempt_index + 1)

\* the async with gpu_semaphore block is left by the RuntimeError of line
\* 122: __aexit__ gives the token back
TokenAfterRaise_Kept(value) == value

TokenAfterRaise(value) == value + 1

LocalTerminal == {"returned", "raised"}

\* job j may take its next step: it owns the loop, or the loop is free and
\* j is a coroutine that can be resumed
Resumable(j) ==
    \/ pc[j] = "sleep"
    \/ pc[j] = "sem_wait" /\ sem_value[my_sem[j]] > 0
    \/ pc[j] = "finally" /\ SubprocessWaitSuspends
    \/ pc[j] = "discover" /\ DiscoverySuspends
    \/ pc[j] = "lock_wait" /\ sync_gpu_lock = NoJob

MayStep(j) == running = j \/ (running = NoJob /\ Resumable(j))

LocalStartOn(hosts, cuda) ==
    /\ hw \in hosts
    /\ torch_cuda = cuda
    /\ gpu_status = <<>>
    /\ sync_gpu_lock = NoJob
    /\ gpu_semaphore = NoJob
    /\ sem_value = [j \in Jobs |-> 0]
    /\ running = NoJob
    /\ pc = [j \in Jobs |-> "ready"]
    /\ min_required_memory = [j \in Jobs |-> 0]
    /\ my_sem = [j \in Jobs |-> NoJob]
    /\ holds_token = [j \in Jobs |-> FALSE]
    /\ attempt = [j \in Jobs |-> 0]
    /\ available_gpus = [j \in Jobs |-> <<>>]
    /\ selected_gpu_id = [j \in Jobs |-> NoGpu]
    /\ wait_time = [j \in Jobs |-> 0]
    /\ proc = [j \in Jobs |-> "none"]
    /\ result = [j \in Jobs |-> "none"]
    /\ result_gpu_id = [j \in Jobs |-> NoGpu]
    /\ pinned = [j \in Jobs |-> NoGpu]
    /\ error_message = [j \in Jobs |-> <<>>]
    /\ cache_release = [j \in Jobs |-> "none"]

\* the service on a host whose torch build reports no CUDA: the finally
\* block of process_locally skips the cache release
LocalStart(hosts) == LocalStartOn(hosts, FALSE)

\* `if use_remote:` of process_task (line 63) and execute_text_extraction
\* (line 38): the flag of the task decides the branch
TakesRemoteBranch_Never(use_remote) == FALSE

TakesRemoteBranch(use_remote) == use_remote

\* who calls process_locally(request j): a direct call, or
\* execute_text_extraction of the consumer's current task with use_remote unset
CalledLocally(j) ==
    \/ cpc = "absent"
    \/ /\ cpc = "extract"
       /\ current.request_id = j
       /\ ~TakesRemoteBranch(current.use_remote)

\* process_locally is called: the coroutine starts when the loop is free
Call(j) ==
    /\ pc[j] = "ready"
    /\ running = NoJob
    /\ CalledLocally(j)
    /\ UNCHANGED notLocal
    /\ running' = j
    /\ pc' = [pc EXCEPT ![j] = "init"]
    /\ UNCHANGED <<hw, torch_cuda, result_gpu_id, pinned, error_message, cache_release, sync_gpu_lock, gpu_status, gpu_semaphore, sem_value,
                   min_required_memory, my_sem, holds_token, attempt,
                   available_gpus, selected_gpu_id, wait_time, proc, result>>

\* await init_gpu_resources(), lines 30-32: sync_gpu_lock is taken and the
\* driver is asked for its cards; a caller that found the lock taken would
\* be suspended until it is free
EnterDiscovery(j) ==
    /\ pc[j] \in {"init", "lock_wait"}
    /\ MayStep(j)
    /\ UNCHANGED notLocal
    /\ IF sync_gpu_lock = NoJob
       THEN /\ sync_gpu_lock' = j
            /\ pc' = [pc EXCEPT ![j] = "discover"]
            /\ running' = IF DiscoverySuspends THEN NoJob ELSE j
       ELSE /\ pc' = [pc EXCEPT ![j] = "lock_wait"]
            /\ running' = NoJob
            /\ UNCHANGED sync_gpu_lock
    /\ UNCHANGED <<hw, torch_cuda, result_gpu_id, pinned, error_message, cache_release, gpu_status, gpu_semaphore, sem_value,
                   min_required_memory, my_sem, holds_token, attempt,
                   available_gpus, selected_gpu_id, wait_time, proc, result>>

\* lines 33-43: the table and the semaphore are made anew and the lock is
\* given back
InitGpuResources(j) ==
    /\ pc[j] = "discover"
    /\ MayStep(j)
    /\ UNCHANGED notLocal
    /\ gpu_status' = Discover(hw)
    /\ gpu_semaphore' = j
    /\ sem_value' = [sem_value EXCEPT ![j] = SemaphoreInit(Len(Discover(hw)))]
    /\ sync_gpu_lock' = NoJob
    /\ running' = j
    /\ pc' = [pc EXCEPT ![j] = "check"]
    /\ UNCHANGED <<hw, torch_cuda, result_gpu_id, pinned, error_message, cache_release, min_required_memory, my_sem, holds_token,
                   attempt, available_gpus, selected_gpu_id, wait_time, proc,
                   result>>

\* lines 85-95: no device -> RuntimeError; else the admission threshold
CheckDevices(j) ==
    /\ pc[j] = "check"
    /\ MayStep(j)
    /\ UNCHANGED notLocal
    /\ IF NoDeviceCheck(gpu_status)
       THEN /\ pc' = [pc EXCEPT ![j] = "raised"]
            /\ result' = [result EXCEPT ![j] = "NoDevice"]
            /\ running' = NoJob
            /\ UNCHANGED min_required_memory
       ELSE /\ pc' = [pc EXCEPT ![j] = "acquire"]
            /\ min_required_memory' =
                   [min_required_memory EXCEPT ![j] = MinRequiredMemory(gpu_status)]
            /\ UNCHANGED <<result, running>>
    /\ UNCHANGED <<hw, torch_cuda, result_gpu_id, pinned, error_message, cache_release, sync_gpu_lock, gpu_status, gpu_semaphore, sem_value,
                   my_sem, holds_token, attempt, available_gpus,
                   selected_gpu_id, wait_time, proc>>

\* async with gpu_semaphore: takes a token of the current semaphore object,
\* or suspends until one is released
AcquireToken(j) ==
    /\ pc[j] \in {"acquire", "sem_wait"}
    /\ MayStep(j)
    /\ UNCHANGED notLocal
    /\ LET s == IF pc[j] = "acquire" THEN gpu_semaphore ELSE my_sem[j]
       IN  /\ my_sem' = [my_sem EXCEPT ![j] = s]
           /\ IF sem_value[s] > 0
              THEN /\ sem_value' = [sem_value EXCEPT ![s] = @ - 1]
                   /\ holds_token' = [holds_token EXCEPT ![j] = TRUE]
                   /\ pc' = [pc EXCEPT ![j] = "scan"]
                   /\ running' = j
              ELSE /\ pc' = [pc EXCEPT ![j] = "sem_wait"]
                   /\ running' = NoJob
                   /\ UNCHANGED <<sem_value, holds_token>>
    /\ UNCHANGED <<hw, torch_cuda, result_gpu_id, pinned, error_message, cache_release, sync_gpu_lock, gpu_status, gpu_semaphore,
                   min_required_memory, attempt, available_gpus,
                   selected_gpu_id, wait_time, proc, result>>

\* lines 101-118, one pass of the selection loop: scan the idle devices
\* (available_gpus = await get_available_gpus(...)), then take the device
\* with the most free memory and mark it busy, or sleep
\* 15 * (attempt + 1) seconds
Attempt(j) ==
    /\ pc[j] = "scan"
    /\ MayStep(j)
    /\ UNCHANGED notLocal
    /\ \E avail \in {get_available_gpus(min_required_memory[j], gpu_status, free) :
                        free \in FreeReadings(hw)} :
             /\ available_gpus' = [available_gpus EXCEPT ![j] = avail]
             /\ IF avail # <<>>
                THEN /\ selected_gpu_id' = [selected_gpu_id EXCEPT ![j] =
                             SortByFreeDesc(avail)[1][1]]
                     /\ gpu_status' = SetGpuStatus(gpu_status,
                             SortByFreeDesc(avail)[1][1], "busy")
                     /\ pc' = [pc EXCEPT ![j] = "run"]
                     /\ UNCHANGED <<wait_time, running>>
                ELSE /\ wait_time' = [wait_time EXCEPT ![j] = WaitTime(attempt[j])]
                     /\ pc' = [pc EXCEPT ![j] = "sleep"]
                     /\ running' = NoJob
                     /\ UNCHANGED <<selected_gpu_id, gpu_status>>
    /\ UNCHANGED <<hw, torch_cuda, result_gpu_id, pinned, error_message, cache_release, sync_gpu_lock, gpu_semaphore, sem_value,
                   min_required_memory, my_sem, holds_token, attempt, proc,
                   result>>

\* for attempt in range(max_attempts), line 101: the loop has a next pass
\* while the index is below max_attempts
LoopContinues_Forever(next_attempt) == TRUE

LoopContinues(next_attempt) == next_attempt < max_attempts

\* asyncio.sleep returns; the for loop goes to its next attempt or ends
Wake(j) ==
    /\ pc[j] = "sleep"
    /\ MayStep(j)
    /\ UNCHANGED notLocal
    /\ running' = j
    /\ attempt' = [attempt EXCEPT ![j] = @ + 1]
    /\ pc' = [pc EXCEPT ![j] =
                 IF LoopContinues(attempt[j] + 1) THEN "scan" ELSE "giveup"]
    /\ UNCHANGED <<hw, torch_cuda, result_gpu_id, pinned, error_message, cache_release, sync_gpu_lock, gpu_status, gpu_semaphore, sem_value,
                   min_required_memory, my_sem, holds_token, available_gpus,
                   selected_gpu_id, wait_time, proc, result>>

\* lines 120-122: selected_gpu_id is None -> RuntimeError; leaving the
\* async with block releases the token; the frame's locals are gone
GiveUp(j) ==
    /\ pc[j] = "giveup"
    /\ MayStep(j)
    /\ UNCHANGED notLocal
    /\ sem_value' = [sem_value EXCEPT ![my_sem[j]] = TokenAfterRaise(@)]
    /\ holds_token' = [holds_token EXCEPT ![j] = FALSE]
    /\ pc' = [pc EXCEPT ![j] = "raised"]
    /\ result' = [result EXCEPT ![j] = "NoDeviceAvailable"]
    /\ running' = NoJob
    /\ attempt' = [attempt EXCEPT ![j] = 0]
    /\ wait_time' = [wait_time EXCEPT ![j] = 0]
    /\ min_required_memory' = [min_required_memory EXCEPT ![j] = 0]
    /\ UNCHANGED <<hw, torch_cuda, result_gpu_id, pinned, error_message, cache_release, sync_gpu_lock, gpu_status, gpu_semaphore, my_sem,
                   available_gpus, selected_gpu_id, proc>>

\* str() of a device id, and the ordinal a decimal string denotes
Digits == <<"0", "1", "2", "3", "4", "5", "6", "7", "8", "9">>

Str(id) == Digits[id + 1]

Ordinal(text) == (CHOOSE i \in 1..Len(Digits) : Digits[i] = text) - 1

\* line 164: sub_env["CUDA_VISIBLE_DEVICES"] = str(selected_gpu_id)
VisibleDevices_AlwaysFirst(id) == Str(0)

VisibleDevices(id) == Str(id)

\* the command line says --device cuda:0 (line 141): the subprocess computes
\* on the first card its CUDA_VISIBLE_DEVICES lets it see, and that variable
\* names one card
DeviceOfSubprocess(visible) == Ordinal(visible)

\* what the subprocess of request j wrote to output_dir / "process.log"
\* (stdout and stderr both go there, lines 166-167)
LogContent(j) ==
    <<"log 1", "log 2", "log 3", "log 4", "log 5", "log 6", "log 7", "log 8",
      "log 9">>[j]

\* lines 171-176: the RuntimeError of a nonzero exit code carries the exit
\* code line and the log read back from process.log; line 190 makes
\* error_message its str()
NonzeroExitMessage_WithoutLog(j) == <<"local processing failed (code)">>

NonzeroExitMessage(j) ==
    <<"local processing failed (code)", "log details", LogContent(j)>>

\* lines 124-192: the try block.  The subprocess exits 0, exits nonzero
\* (RuntimeError raised inside the try) or something raises before or while
\* it runs; except Exception turns both failures into an error dict.  The
\* second get_available_gpus call (line 154) only reads.
RunSubprocess(j) ==
    /\ pc[j] = "run"
    /\ MayStep(j)
    /\ UNCHANGED notLocal
    /\ \E outcome \in {"ok", "nonzero", "exception"} :
           /\ proc' = [proc EXCEPT ![j] = outcome]
           /\ result' = [result EXCEPT ![j] =
                  IF outcome = "ok" THEN "success" ELSE "error"]
           /\ pinned' = [pinned EXCEPT ![j] =
                  IF outcome = "exception" THEN NoGpu
                  ELSE DeviceOfSubprocess(VisibleDevices(selected_gpu_id[j]))]
           /\ error_message' = [error_message EXCEPT ![j] =
                  IF outcome = "nonzero" THEN NonzeroExitMessage(j)
                  ELSE IF outcome = "exception" THEN <<"exception">>
                  ELSE <<>>]
    /\ result_gpu_id' = [result_gpu_id EXCEPT ![j] = selected_gpu_id[j]]
    \* gpu_info of line 154 is only logged; available_gpus is dead from here
    /\ pc' = [pc EXCEPT ![j] = "finally"]
    /\ running' = IF SubprocessWaitSuspends THEN NoJob ELSE j
    /\ available_gpus' = [available_gpus EXCEPT ![j] = <<>>]
    /\ UNCHANGED <<hw, torch_cuda, cache_release, sync_gpu_lock, gpu_status, gpu_semaphore, sem_value,
                   min_required_memory, my_sem, holds_token, attempt,
                   selected_gpu_id, wait_time>>

\* lines 203-209: torch.cuda.synchronize / empty_cache run inside their own
\* try; except Exception only logs a warning, nothing is raised out of the
\* finally block
CacheFailureRaises_Propagates == TRUE

CacheFailureRaises == FALSE

\* what the call hands to its caller once the finally block has run: the
\* value of the return statement that was pending, unless the finally block
\* itself raised
AfterFinally(pending, cache_outcome) ==
    IF cache_outcome = "failed" /\ CacheFailureRaises
    THEN "CacheReleaseError" ELSE pending

\* lines 203-207: `if torch.cuda.is_available():` guards the two calls;
\* they both succeed ("ok") or one of them raises ("failed")
CacheOutcomes(cuda) == IF cuda THEN {"ok", "failed"} ELSE {"skipped"}

\* lines 194-209: the finally block.  The device goes back to idle first;
\* then the CUDA cache is released
Finally(j) ==
    /\ pc[j] = "finally"
    /\ MayStep(j)
    /\ UNCHANGED notLocal
    /\ running' = j
    /\ gpu_status' = ReleaseGpu(gpu_status, selected_gpu_id[j], proc[j])
    /\ \E cache_outcome \in CacheOutcomes(torch_cuda) :
           /\ cache_release' = [cache_release EXCEPT ![j] = cache_outcome]
           /\ result' = [result EXCEPT ![j] = AfterFinally(@, cache_outcome)]
    /\ pc' = [pc EXCEPT ![j] = "exit"]
    /\ UNCHANGED <<hw, torch_cuda, result_gpu_id, pinned, error_message, sync_gpu_lock, gpu_semaphore, sem_value,
                   min_required_memory, my_sem, holds_token, attempt,
                   available_gpus, selected_gpu_id, wait_time, proc>>

\* the async with block is left: the token goes back to the semaphore
\* object it was taken from, and the call returns its dict (or lets the
\* pending exception through); the callers read its status and
\* error_message (gpu_id is only logged), and the frame's locals are gone
ReleaseToken(j) ==
    /\ pc[j] = "exit"
    /\ MayStep(j)
    /\ UNCHANGED notLocal
    /\ sem_value' = [sem_value EXCEPT ![my_sem[j]] = @ + 1]
    /\ holds_token' = [holds_token EXCEPT ![j] = FALSE]
    /\ pc' = [pc EXCEPT ![j] =
                 IF result[j] \in {"success", "error"} THEN "returned"
                 ELSE "raised"]
    /\ running' = NoJob
    /\ attempt' = [attempt EXCEPT ![j] = 0]
    /\ wait_time' = [wait_time EXCEPT ![j] = 0]
    /\ min_required_memory' = [min_required_memory EXCEPT ![j] = 0]
    /\ available_gpus' = [available_gpus EXCEPT ![j] = <<>>]
    /\ proc' = [proc EXCEPT ![j] = "none"]
    /\ selected_gpu_id' = [selected_gpu_id EXCEPT ![j] = NoGpu]
    /\ cache_release' = [cache_release EXCEPT ![j] = "none"]
    /\ pinned' = [pinned EXCEPT ![j] = NoGpu]
    /\ result_gpu_id' = [result_gpu_id EXCEPT ![j] = NoGpu]
    /\ UNCHANGED <<hw, torch_cuda, error_message, sync_gpu_lock, gpu_status, gpu_semaphore, my_sem,
                   result>>

LocalStep(j) ==
    \/ EnterDiscovery(j)
    \/ InitGpuResources(j)
    \/ CheckDevices(j)
    \/ AcquireToken(j)
    \/ Attempt(j)
    \/ Wake(j)
    \/ GiveUp(j)
    \/ RunSubprocess(j)
    \/ Finally(j)
    \/ ReleaseToken(j)

\* ======================================================= remote dispatcher
\* max_retries=3, the default every caller uses
max_retries == 3

RemoteDevs == 1..NumRemote

\* what one session.post can do: a 200 answer with status success, a
\* ConnectionError or Timeout, a status code other than 200, a 200 answer
\* whose status is not success
SendOutcomes == {"ok", "transport", "http_error", "status_error"}

\* a sweep that leaves the status of an unhealthy device as it was
Sweep_ErrorSticks(devs, health) ==
    [i \in 1..Len(devs) |->
        [devs[i] EXCEPT !.status =
            IF health[i] /\ devs[i].status # "error" THEN "idle" ELSE "error"]]

Sweep_NoDemotion(devs, health) ==
    [i \in 1..Len(devs) |->
        IF health[i] THEN [devs[i] EXCEPT !.status = "idle"] ELSE devs[i]]

\* for device in REMOTE_DEVICES: device["status"] = "idle" if healthy else "error"
Sweep(devs, health) ==
    [i \in 1..Len(devs) |->
        [devs[i] EXCEPT !.status = IF health[i] THEN "idle" ELSE "error"]]

\* for device in REMOTE_DEVICES: if device["status"] == "idle": return device
\* (its name; NoJob is None)
RECURSIVE FirstIdleFrom(_, _)
FirstIdleFrom(devs, i) ==
    IF i > Len(devs) THEN NoJob
    ELSE IF devs[i].status = "idle" THEN devs[i].name
    ELSE FirstIdleFrom(devs, i + 1)

FirstIdle(devs) == FirstIdleFrom(devs, 1)

\* mark_device_status: the first device of that name gets the status
RECURSIVE MarkFrom(_, _, _, _)
MarkFrom(devs, i, device_name, status) ==
    IF i > Len(devs) THEN devs
    ELSE IF devs[i].name = device_name
         THEN [devs EXCEPT ![i].status = status]
         ELSE MarkFrom(devs, i + 1, device_name, status)

mark_device_status(devs, device_name, status) ==
    MarkFrom(devs, 1, device_name, status)

\* finally: mark_device_status(device["name"], "idle"), whatever the try
\* block did (pending is what the function does next)
RestoreDevice_NotWhenRaising(devs, device_name, pending) ==
    IF pending = "RemoteApplicationError" THEN devs
    ELSE mark_device_status(devs, device_name, "idle")

RestoreDevice(devs, device_name, pending) ==
    mark_device_status(devs, device_name, "idle")

RemoteStatusOf(devs, device_name) ==
    IF \E i \in 1..Len(devs) : devs[i].name = device_name
    THEN devs[CHOOSE i \in 1..Len(devs) : devs[i].name = device_name].status
    ELSE "absent"

\* if not device: raise RuntimeError
NoIdleDeviceCheck_Dropped(selected) == FALSE

NoIdleDeviceCheck(selected) == selected = NoJob

\* while retries < max_retries
RetryAllowed_OffByOne(r, m) == r <= m

RetryAllowed(r, m) == r < m

\* except (requests.exceptions.ConnectionError, requests.exceptions.Timeout)
IsTransportError_AnyHttp(outcome) == outcome \in {"transport", "http_error"}

IsTransportError(outcome) == outcome = "transport"

\* await asyncio.sleep(2 ** retries), retries already counting the failure
BackoffDelay_BeforeCount(r) == Pow2(r - 1)

BackoffDelay(r) == Pow2(r)

RemoteTerminal == {"returned", "raised"}

RMayStep(j) == running = j \/ (running = NoJob /\ rpc[j] = "backoff")

RemoteStart ==
    /\ REMOTE_DEVICES = [i \in RemoteDevs |-> [name |-> i, status |-> "idle"]]
    /\ probed = <<>>
    /\ rpc = [j \in Jobs |-> "ready"]
    /\ retries = [j \in Jobs |-> 0]
    /\ device = [j \in Jobs |-> NoJob]
    /\ outcomes = [j \in Jobs |-> <<>>]
    /\ sleeps = [j \in Jobs |-> <<>>]
    /\ selections = [j \in Jobs |-> 0]
    /\ rresult = [j \in Jobs |-> "none"]

\* who calls process_remotely(request j): a direct call, or
\* execute_text_extraction of the consumer's current task with use_remote set
CalledRemotely(j) ==
    \/ cpc = "absent"
    \/ /\ cpc = "extract"
       /\ current.request_id = j
       /\ TakesRemoteBranch(current.use_remote)

\* process_remotely is called: retries = 0
RCall(j) ==
    /\ rpc[j] = "ready"
    /\ running = NoJob
    /\ CalledRemotely(j)
    /\ running' = j
    /\ rpc' = [rpc EXCEPT ![j] = "loop"]
    /\ UNCHANGED <<REMOTE_DEVICES, probed, retries, device, outcomes, sleeps,
                   selections, rresult>>
    /\ UNCHANGED notRemote

\* the while test; when it fails, lines 350-351 raise the retries-exhausted
\* error
RLoop(j) ==
    /\ rpc[j] = "loop"
    /\ RMayStep(j)
    /\ IF RetryAllowed(retries[j], max_retries)
       THEN /\ rpc' = [rpc EXCEPT ![j] = "select"]
            /\ UNCHANGED <<rresult, running>>
       ELSE /\ rpc' = [rpc EXCEPT ![j] = "raised"]
            /\ rresult' = [rresult EXCEPT ![j] = "RemoteExhausted"]
            /\ running' = NoJob
    /\ UNCHANGED <<REMOTE_DEVICES, probed, retries, device, outcomes, sleeps,
                   selections>>
    /\ UNCHANGED notRemote

\* lines 277-283: get_available_remote_device probes every device and
\* rewrites its status; no idle device raises, else the device is marked busy
RSelect(j) ==
    /\ rpc[j] = "select"
    /\ RMayStep(j)
    /\ selections' = [selections EXCEPT ![j] = @ + 1]
    /\ \E health \in [RemoteDevs -> BOOLEAN] :
         LET swept == Sweep(REMOTE_DEVICES, health)
         IN  /\ probed' = health
             /\ IF NoIdleDeviceCheck(FirstIdle(swept))
                 THEN /\ REMOTE_DEVICES' = swept
                      /\ rpc' = [rpc EXCEPT ![j] = "raised"]
                      /\ rresult' = [rresult EXCEPT ![j] = "NoRemoteDevice"]
                      /\ device' = [device EXCEPT ![j] = NoJob]
                      /\ running' = NoJob
                 ELSE /\ REMOTE_DEVICES' =
                             mark_device_status(swept, FirstIdle(swept), "busy")
                      /\ device' = [device EXCEPT ![j] = FirstIdle(swept)]
                      /\ rpc' = [rpc EXCEPT ![j] = "send"]
                      /\ UNCHANGED <<rresult, running>>
    /\ UNCHANGED <<retries, outcomes, sleeps>>
    /\ UNCHANGED notRemote

\* lines 285-345: the try block and its except clauses.  session.post is a
\* blocking call.  A transport failure counts a retry and sleeps
\* 2 ** retries inside the except clause, before the finally block runs;
\* any other exception is re-raised; a good answer is returned.
RSend(j) ==
    /\ rpc[j] = "send"
    /\ RMayStep(j)
    /\ \E outcome \in SendOutcomes :
         /\ outcomes' = [outcomes EXCEPT ![j] = Append(@, outcome)]
         /\ IF IsTransportError(outcome)
            THEN /\ retries' = [retries EXCEPT ![j] = @ + 1]
                 /\ sleeps' = [sleeps EXCEPT ![j] =
                        Append(@, BackoffDelay(retries[j] + 1))]
                 /\ rpc' = [rpc EXCEPT ![j] = "backoff"]
                 /\ running' = NoJob
                 /\ UNCHANGED rresult
            ELSE /\ rresult' = [rresult EXCEPT ![j] =
                        IF outcome = "ok" THEN "success"
                        ELSE "RemoteApplicationError"]
                 /\ rpc' = [rpc EXCEPT ![j] = "finally"]
                 /\ UNCHANGED <<retries, sleeps, running>>
    /\ UNCHANGED <<REMOTE_DEVICES, probed, device, selections>>
    /\ UNCHANGED notRemote

\* asyncio.sleep(2 ** retries) returns
RWake(j) ==
    /\ rpc[j] = "backoff"
    /\ RMayStep(j)
    /\ running' = j
    /\ rpc' = [rpc EXCEPT ![j] = "finally"]
    /\ UNCHANGED <<REMOTE_DEVICES, probed, retries, device, outcomes, sleeps,
                   selections, rresult>>
    /\ UNCHANGED notRemote

\* lines 346-348: the finally block; then the return, the re-raise or the
\* next pass of the while loop
RFinally(j) ==
    /\ rpc[j] = "finally"
    /\ RMayStep(j)
    /\ REMOTE_DEVICES' = RestoreDevice(REMOTE_DEVICES, device[j], rresult[j])
    /\ rpc' = [rpc EXCEPT ![j] =
                  IF rresult[j] = "success" THEN "returned"
                  ELSE IF rresult[j] = "none" THEN "loop" ELSE "raised"]
    /\ running' = IF rresult[j] = "none" THEN j ELSE NoJob
    /\ UNCHANGED <<probed, retries, device, outcomes, sleeps, selections, rresult>>
    /\ UNCHANGED notRemote

\* GET /devices (routes/device_routes.py, list_devices): the route probes
\* every remote device and rewrites its status; its requests.get calls are
\* blocking, so it runs from start to end whenever the event loop is free
ListDevices ==
    /\ running = NoJob
    /\ \E health \in [RemoteDevs -> BOOLEAN] :
         /\ REMOTE_DEVICES' = Sweep(REMOTE_DEVICES, health)
         /\ probed' = health
    /\ UNCHANGED <<running, rpc, retries, device, outcomes, sleeps,
                   selections, rresult>>
    /\ UNCHANGED notRemote

RemoteStep(j) ==
    \/ RLoop(j)
    \/ RSelect(j)
    \/ RSend(j)
    \/ RWake(j)
    \/ RFinally(j)

\* ================================================= core_files normalisation
\* Strings are sequences of one-character strings, so that `pattern in key`
\* and Path(key).name are computed on the characters.

\* config.CORE_FILE_KEY_MAPPING, in dict order: (pattern, standard key)
CORE_FILE_KEY_MAPPING_MdFirst ==
    << <<<<".", "m", "d">>, <<"r", "e", "s", "u", "l", "t", ".", "m", "d">>>>,
       <<<<".", "t", "x", "t">>, <<"m", "o", "d", "e", "l", "_", "o", "u", "t", "p", "u", "t", ".", "t", "x", "t">>>>,
       <<<<"_", "m", "i", "d", "d", "l", "e", ".", "j", "s", "o", "n">>, <<"m", "i", "d", "d", "l", "e", ".", "j", "s", "o", "n">>>>,
       <<<<"_", "c", "o", "n", "t", "e", "n", "t", "_", "l", "i", "s", "t", ".", "j", "s", "o", "n">>, <<"c", "o", "n", "t", "e", "n", "t", "_", "l", "i", "s", "t", ".", "j", "s", "o", "n">>>> >>

\* the table with another standard key for .txt
CORE_FILE_KEY_MAPPING_TxtAsMd ==
    << <<<<".", "t", "x", "t">>, <<"m", "o", "d", "e", "l", "_", "o", "u", "t", "p", "u", "t", ".", "m", "d">>>>,
       <<<<".", "m", "d">>, <<"r", "e", "s", "u", "l", "t", ".", "m", "d">>>>,
       <<<<"_", "m", "i", "d", "d", "l", "e", ".", "j", "s", "o", "n">>, <<"m", "i", "d", "d", "l", "e", ".", "j", "s", "o", "n">>>>,
       <<<<"_", "c", "o", "n", "t", "e", "n", "t", "_", "l", "i", "s", "t", ".", "j", "s", "o", "n">>, <<"c", "o", "n", "t", "e", "n", "t", "_", "l", "i", "s", "t", ".", "j", "s", "o", "n">>>> >>

CORE_FILE_KEY_MAPPING ==
    << <<<<".", "t", "x", "t">>, <<"m", "o", "d", "e", "l", "_", "o", "u", "t", "p", "u", "t", ".", "t", "x", "t">>>>,
       <<<<".", "m", "d">>, <<"r", "e", "s", "u", "l", "t", ".", "m", "d">>>>,
       <<<<"_", "m", "i", "d", "d", "l", "e", ".", "j", "s", "o", "n">>, <<"m", "i", "d", "d", "l", "e", ".", "j", "s", "o", "n">>>>,
       <<<<"_", "c", "o", "n", "t", "e", "n", "t", "_", "l", "i", "s", "t", ".", "j", "s", "o", "n">>, <<"c", "o", "n", "t", "e", "n", "t", "_", "l", "i", "s", "t", ".", "j", "s", "o", "n">>>> >>

\* the raw keys of the runs: relative paths of output files
KeyFooMiddle == <<"f", "o", "o", "_", "m", "i", "d", "d", "l", "e", ".", "j", "s", "o", "n">>
KeyNotes == <<"n", "o", "t", "e", "s", ".", "t", "x", "t">>
KeyContentList == <<"o", "u", "t", "/", "a", "_", "c", "o", "n", "t", "e", "n", "t", "_", "l", "i", "s", "t", ".", "j", "s", "o", "n">>
KeyReport == <<"o", "u", "t", "/", "r", "e", "p", "o", "r", "t", ".", "m", "d">>
KeyData == <<"s", "u", "b", "/", "d", "a", "t", "a", ".", "j", "s", "o", "n">>
KeyMdTxt == <<"x", ".", "m", "d", ".", "t", "x", "t">>

RawKeys == {KeyFooMiddle, KeyNotes, KeyContentList, KeyReport, KeyData, KeyMdTxt}

\* pattern in original_key
Contains(pattern, key) ==
    \E i \in 0..(Len(key) - Len(pattern)) :
        SubSeq(key, i + 1, i + Len(pattern)) = pattern

\* Path(original_key).name: what follows the last "/"
RECURSIVE PathName(_)
PathName(key) ==
    IF \E i \in 1..Len(key) : key[i] = "/"
    THEN PathName(SubSeq(key, 1 + (CHOOSE i \in 1..Len(key) : key[i] = "/"), Len(key)))
    ELSE key

\* the inner for ... else: the first pattern of the table that occurs in the
\* key gives the standard key; without a match, the base filename
RECURSIVE StandardKeyFrom(_, _, _)
StandardKeyFrom(table, i, original_key) ==
    IF i > Len(table) THEN PathName(original_key)
    ELSE IF Contains(table[i][1], original_key) THEN table[i][2]
    ELSE StandardKeyFrom(table, i + 1, original_key)

StandardKey(original_key) == StandardKeyFrom(CORE_FILE_KEY_MAPPING, 1, original_key)

\* normalized[k] = url
DictPut(d, k, url) ==
    [x \in DOMAIN d \cup {k} |-> IF x = k THEN url ELSE d[x]]

EmptyDict == [x \in {} |-> 0]

\* normalize_core_files: the outer loop over core_files.items()
RECURSIVE NormalizeFrom(_, _, _)
NormalizeFrom(items, i, acc) ==
    IF i > Len(items) THEN acc
    ELSE NormalizeFrom(items, i + 1,
                       DictPut(acc, StandardKey(items[i][1]), items[i][2]))

normalize_core_files(items) == NormalizeFrom(items, 1, EmptyDict)

\* a dict's items: distinct keys, the url of entry i is i
CoreFilesInputs ==
    {m \in UNION {[1..n -> RawKeys \X (1..MaxFiles)] : n \in 0..MaxFiles} :
        /\ \A i \in 1..Len(m) : m[i][2] = i
        /\ \A i, k \in 1..Len(m) : i # k => m[i][1] # m[k][1]}

\* the items of a returned dict, in any order of its keys
ItemsOf(d) ==
    LET n == Cardinality(DOMAIN d)
        orders == {o \in [1..n -> DOMAIN d] :
                      \A i, k \in 1..n : i # k => o[i] # o[k]}
    IN  {[i \in 1..n |-> <<o[i], d[o[i]]>>] : o \in orders}

NormStart(inputs) ==
    /\ core_files \in inputs
    /\ normalized = EmptyDict
    /\ norm_done = FALSE
    /\ renormalized = EmptyDict
    /\ renorm_done = FALSE

\* normalize_core_files(core_files) is called and returns
Normalize ==
    /\ ~norm_done
    /\ normalized' = normalize_core_files(core_files)
    /\ norm_done' = TRUE
    /\ UNCHANGED <<core_files, renormalized, renorm_done>>
    /\ UNCHANGED notNorm

\* normalize_core_files is called on the dict it returned
NormalizeAgain ==
    /\ norm_done
    /\ ~renorm_done
    /\ \E items \in ItemsOf(normalized) :
         renormalized' = normalize_core_files(items)
    /\ renorm_done' = TRUE
    /\ UNCHANGED <<core_files, normalized, norm_done>>
    /\ UNCHANGED notNorm

\* ========================================================= queue consumers
\* combined_task_consumer (tasks/combined_task_consumer.py) and task_consumer
\* (tasks/task_consumer.py): one coroutine each, which awaits the processing
\* of a task inline before the next blpop.

\* asyncio.Semaphore(5)
ConsumerConcurrency == 5

\* await asyncio.sleep(5) of the loops' except Exception
ErrorSleep == 5

\* no task in hand
NoTask == [request_id |-> NoJob, use_remote |-> FALSE]

\* config: the prefixes of the result keys
TASK_RESULT_KEY_PREFIX == <<"m", "i", "n", "e", "r", "u", "_", "t", "a", "s", "k", "_", "r", "e", "s", "u", "l", "t", ":">>
IMAGE_TASK_RESULT_KEY_PREFIX == <<"i", "m", "a", "g", "e", "_", "d", "e", "s", "c", "_", "r", "e", "s", "u", "l", "t", ":">>
COMBINED_TASK_RESULT_KEY_PREFIX == <<"c", "o", "m", "b", "i", "n", "e", "d", "_", "t", "a", "s", "k", "_", "r", "e", "s", "u", "l", "t", ":">>

Prefixes ==
    {TASK_RESULT_KEY_PREFIX, IMAGE_TASK_RESULT_KEY_PREFIX,
     COMBINED_TASK_RESULT_KEY_PREFIX}

\* task["request_id"] of request t, a string
RequestId(t) == <<"r", <<"0", "1", "2", "3", "4", "5", "6", "7", "8", "9">>[t + 1]>>

\* PREFIX + request_id
ResultKey(prefix, request_id) == prefix \o request_id

ResultKeys == {ResultKey(p, RequestId(t)) : p \in Prefixes, t \in Jobs}

\* the prefix a consumer pushes under
\* the consumers that run each task inside `async with semaphore` and use
\* the combined queue and result keys: combined_task_consumer.py and the
\* consumer of demo.py
IsCombinedConsumer(v) == v \in {"combined", "demo"}

PushPrefix(v) ==
    IF IsCombinedConsumer(v) THEN COMBINED_TASK_RESULT_KEY_PREFIX
    ELSE TASK_RESULT_KEY_PREFIX

\* redis_client.rpush(key, json.dumps(record))
Rpush(db, key, record) == [db EXCEPT ![key] = Append(@, record)]

\* the record process_task / process_combined_task push for request t
ResultRecord(status, t) == [status |-> status, request_id |-> RequestId(t)]

\* config.SUPPORTED_FILE_TYPES, in dict order: (type, extensions)
SUPPORTED_FILE_TYPES ==
    << <<"pdf", {<<".", "p", "d", "f">>}>>,
       <<"image", {<<".", "j", "p", "g">>, <<".", "j", "p", "e", "g">>, <<".", "p", "n", "g">>}>>,
       <<"office", {<<".", "d", "o", "c">>, <<".", "d", "o", "c", "x">>, <<".", "p", "p", "t">>, <<".", "p", "p", "t", "x">>, <<".", "x", "l", "s">>, <<".", "x", "l", "s", "x">>}>> >>

\* the suffixes of the input files of the runs
Suffixes == {<<".", "p", "d", "f">>, <<".", "P", "D", "F">>, <<".", "p", "n", "g">>, <<".", "d", "o", "c", "x">>, <<".", "t", "x", "t">>, <<>>}

\* str.lower() on the letters of the suffixes
LowerChar(c) ==
    CASE c = "P" -> "p"
      [] c = "D" -> "d"
      [] c = "F" -> "f"
      [] OTHER -> c

Lower(s) == [i \in 1..Len(s) |-> LowerChar(s[i])]

\* get_file_type: the first type whose extensions hold the lowered suffix,
\* or None
RECURSIVE FileTypeFrom(_, _, _)
FileTypeFrom(table, i, file_ext) ==
    IF i > Len(table) THEN "None"
    ELSE IF file_ext \in table[i][2] THEN table[i][1]
    ELSE FileTypeFrom(table, i + 1, file_ext)

get_file_type(suffix) == FileTypeFrom(SUPPORTED_FILE_TYPES, 1, Lower(suffix))

\* preprocess_file: if not file_type: raise ValueError
UnsupportedRaises_Dropped(file_type) == FALSE

UnsupportedRaises(file_type) == file_type = "None"

\* if image_result["status"] == "error": raise Exception
\* process_combined_task, lines 289-290: the error dict of
\* execute_text_extraction makes the task raise before step 3
ExtractFailureRaises_Ignored(status) == FALSE

ExtractFailureRaises(status) == status = "error"

ImageFailureRaises_Ignored(status) == FALSE

ImageFailureRaises(status) == status = "error"

\* except Exception: of the consumer loops
CaughtByLoop_RedisOnly(kind) == kind = "RedisError"

CaughtByLoop(kind) == kind \in {"RedisError", "JSONDecodeError", "KeyError"}

\* where an exception raised in the loop's try block lands
RaiseTo(kind) == IF CaughtByLoop(kind) THEN "loop_except" ELSE "crashed"

\* if task_data is None: continue
TimeoutContinues_AsError == FALSE

TimeoutContinues == TRUE

\* async with semaphore: __aexit__ when the block is left by an exception
ReleaseOnRaise_Leaked(v, value) == value

ReleaseOnRaise(v, value) ==
    IF IsCombinedConsumer(v) THEN value + 1 ELSE value

\* what went wrong in process_locally / process_remotely for request t, or
\* "none"
ExtractionFailure_LocalStatusUnchecked(t, remote) ==
    IF remote
    THEN IF rpc[t] = "raised" THEN rresult[t] ELSE "none"
    ELSE IF pc[t] = "raised" THEN result[t] ELSE "none"

ExtractionFailure(t, remote) ==
    IF remote
    THEN IF rpc[t] = "raised" THEN rresult[t] ELSE "none"
    ELSE IF pc[t] = "raised" THEN result[t]
         ELSE IF result[t] = "error" THEN "LocalExecution"
         ELSE "none"

\* the frame of process_task / process_combined_task is dropped
DropFrame ==
    /\ current' = NoTask
    /\ converted' = FALSE
    /\ original_type' = "unset"
    /\ extract_result' = "none"
    /\ image_result' = "none"
    /\ merge_result' = "none"
    /\ error' = "none"

\* the frame of the process_locally / process_remotely call of request t is
\* dropped
DropCallFrame(t) ==
    /\ pc' = [pc EXCEPT ![t] = "ready"]
    /\ result' = [result EXCEPT ![t] = "none"]
    /\ error_message' = [error_message EXCEPT ![t] = <<>>]
    /\ min_required_memory' = [min_required_memory EXCEPT ![t] = 0]
    /\ my_sem' = [my_sem EXCEPT ![t] = NoJob]
    /\ rpc' = [rpc EXCEPT ![t] = "ready"]
    /\ rresult' = [rresult EXCEPT ![t] = "none"]
    /\ retries' = [retries EXCEPT ![t] = 0]
    /\ device' = [device EXCEPT ![t] = NoJob]
    /\ outcomes' = [outcomes EXCEPT ![t] = <<>>]
    /\ sleeps' = [sleeps EXCEPT ![t] = <<>>]
    /\ selections' = [selections EXCEPT ![t] = 0]
    /\ UNCHANGED <<running, hw, torch_cuda, result_gpu_id, pinned, cache_release, sync_gpu_lock, gpu_status, gpu_semaphore,
                   sem_value, holds_token, attempt, available_gpus,
                   selected_gpu_id, wait_time, proc, REMOTE_DEVICES, probed,
                   normVars, convertVars>>

frameVars == <<current, converted, original_type, extract_result,
               image_result, merge_result, error>>

ConsumerStartAt(kind, position) ==
    /\ variant = kind
    /\ queue = <<>>
    /\ enqueued = {}
    /\ cpc = position
    /\ task_data = "unset"
    /\ loop_sleep = 0
    /\ current = NoTask
    /\ semaphore = ConsumerConcurrency
    /\ converted = FALSE
    /\ original_type = "unset"
    /\ extract_result = "none"
    /\ image_result = "none"
    /\ merge_result = "none"
    /\ error = "none"
    /\ results = [k \in ResultKeys |-> <<>>]
    /\ poll = [request_id |-> NoJob, returned |-> "none", of |-> <<>>,
               earlier |-> "none"]

\* no consumer: process_locally / process_remotely are called directly
NoConsumer == ConsumerStartAt("none", "absent")

\* combined_task_consumer has started and waits in blpop
ConsumerStart == ConsumerStartAt("combined", "wait")

\* task_consumer has started and waits in blpop
TaskConsumerStart == ConsumerStartAt("extract", "wait")

\* the request-intake layer (another process) pushes a task on the queue;
\* the requests are numbered in the order in which they are queued, and
\* their use_remote flag is one of flags
EnqueueWith(t, flags) ==
    /\ cpc # "absent"
    /\ t \notin enqueued
    /\ \A u \in Jobs : u < t => u \in enqueued
    /\ enqueued' = enqueued \cup {t}
    /\ \E remote \in flags :
         queue' = Append(queue, [request_id |-> t, use_remote |-> remote])
    /\ UNCHANGED <<variant, cpc, task_data, loop_sleep, semaphore, frameVars,
                   results, poll>>
    /\ UNCHANGED notCombined

Enqueue(t) == EnqueueWith(t, BOOLEAN)

\* a request for local processing is queued
EnqueueLocal(t) == EnqueueWith(t, {FALSE})

\* blpop(QUEUE_NAME, timeout=10) and json.loads: the call raises (the
\* connection is down), or returns None after the time-out (continue), or
\* returns a task, whose data decode or do not
Blpop ==
    /\ cpc = "wait"
    /\ \/ /\ cpc' = RaiseTo("RedisError")
          /\ UNCHANGED <<queue, current, task_data>>
       \/ /\ queue = <<>>
          /\ task_data' = "None"
          /\ cpc' = IF TimeoutContinues THEN "wait" ELSE RaiseTo("KeyError")
          /\ UNCHANGED <<queue, current>>
       \/ /\ queue # <<>>
          /\ task_data' = "task"
          /\ queue' = Tail(queue)
          /\ \E decoded \in {"ok", "JSONDecodeError", "KeyError"} :
               IF decoded = "ok"
               THEN /\ current' = Head(queue)
                    /\ cpc' = IF IsCombinedConsumer(variant) THEN "enter"
                              ELSE "preprocess"
               ELSE /\ cpc' = RaiseTo(decoded)
                    /\ UNCHANGED current
    /\ UNCHANGED <<variant, enqueued, loop_sleep, semaphore, converted,
                   original_type, extract_result, image_result, merge_result,
                   error, results, poll>>
    /\ UNCHANGED notCombined

\* async with semaphore: (the loop awaits each task before the next blpop,
\* so the value is 5 here)
EnterSemaphore ==
    /\ cpc = "enter"
    /\ semaphore > 0
    /\ semaphore' = semaphore - 1
    /\ cpc' = "preprocess"
    /\ UNCHANGED <<variant, queue, enqueued, task_data, loop_sleep, frameVars,
                   results, poll>>
    /\ UNCHANGED notCombined

\* preprocess_file: get_file_type, ValueError for an unsupported type; an
\* office file is converted, RuntimeError when the conversion fails
Preprocess ==
    /\ cpc = "preprocess"
    /\ \E suffix \in Suffixes :
         LET file_type == get_file_type(suffix)
         IN  /\ original_type' = file_type
             /\ IF UnsupportedRaises(file_type)
                THEN /\ converted' = FALSE
                     /\ error' = "unsupported"
                     /\ cpc' = "except"
                ELSE IF file_type = "office"
                THEN \E pdf \in {"ok", "failed"} :
                       /\ converted' = (pdf = "ok")
                       /\ error' = IF pdf = "ok" THEN "none" ELSE "convert_failed"
                       /\ cpc' = IF pdf = "ok" THEN "extract" ELSE "except"
                ELSE /\ converted' = FALSE
                     /\ error' = "none"
                     /\ cpc' = "extract"
    /\ UNCHANGED <<variant, queue, enqueued, task_data, loop_sleep, current,
                   semaphore, extract_result, image_result, merge_result,
                   results, poll>>
    /\ UNCHANGED notCombined

\* execute_text_extraction returns and the frame of the call it awaited is
\* dropped: the error dict when process_remotely or process_locally raised or
\* the local dict's status is error, or when collecting the core files raised
\* (an upload, a remote payload without results); else the success dict.  An
\* error dict makes process_combined_task raise.
ExtractReturns ==
    /\ cpc = "extract"
    /\ variant = "combined"
    /\ running = NoJob
    /\ LET t == current.request_id
           failure == ExtractionFailure(t, current.use_remote)
       IN  /\ IF current.use_remote
              THEN rpc[t] \in RemoteTerminal
              ELSE pc[t] \in LocalTerminal
           /\ \E collect \in {"ok", "raises"} :
                LET ok == collect = "ok" /\ failure = "none"
                IN  /\ extract_result' = IF ok THEN "success" ELSE "error"
                    /\ error' = IF failure # "none" THEN failure
                                ELSE IF ok THEN "none" ELSE "collect"
                    /\ cpc' = IF ExtractFailureRaises(
                                      IF ok THEN "success" ELSE "error")
                               THEN "except" ELSE "image"
           /\ DropCallFrame(t)
    /\ UNCHANGED <<variant, queue, enqueued, task_data, loop_sleep, current,
                   semaphore, converted, original_type, image_result,
                   merge_result, results, poll>>

\* process_task, lines 62-120: process_remotely or process_locally returns
\* or raises and its frame is dropped.  A raise, and a raise while the core
\* files are collected, go to the except block; the local error dict makes
\* the error result, which goes on to the push like a success result.
TaskExtractReturns ==
    /\ cpc = "extract"
    /\ variant = "extract"
    /\ running = NoJob
    /\ LET t == current.request_id
           failure == ExtractionFailure(t, current.use_remote)
       IN  /\ IF current.use_remote
              THEN rpc[t] \in RemoteTerminal
              ELSE pc[t] \in LocalTerminal
           /\ IF failure = "LocalExecution"
              THEN /\ extract_result' = "error"
                   /\ error' = failure
                   /\ cpc' = "publish"
              ELSE IF failure # "none"
              THEN /\ extract_result' = "error"
                   /\ error' = failure
                   /\ cpc' = "except"
              ELSE \E collect \in {"ok", "raises"} :
                     /\ extract_result' =
                            IF collect = "ok" THEN "success" ELSE "error"
                     /\ error' = IF collect = "ok" THEN "none" ELSE "collect"
                     /\ cpc' = IF collect = "ok" THEN "publish" ELSE "except"
           /\ DropCallFrame(t)
    /\ UNCHANGED <<variant, queue, enqueued, task_data, loop_sleep, current,
                   semaphore, converted, original_type, image_result,
                   merge_result, results, poll>>

\* process_task, lines 122-130: the upload of the converted PDF may raise;
\* the result is pushed, or the push raises
TaskPush ==
    /\ cpc = "publish"
    /\ \E upload \in {"ok", "raises"}, push \in {"ok", "raises"} :
         IF converted /\ upload = "raises"
         THEN /\ cpc' = "except"
              /\ error' = "upload"
              /\ UNCHANGED results
         ELSE IF push = "raises"
         THEN /\ cpc' = "except"
              /\ error' = "push"
              /\ UNCHANGED results
         ELSE /\ results' = Rpush(results,
                      ResultKey(PushPrefix(variant), RequestId(current.request_id)),
                      ResultRecord(extract_result, current.request_id))
              /\ cpc' = "leave"
              /\ UNCHANGED error
    /\ UNCHANGED <<variant, queue, enqueued, task_data, loop_sleep, current,
                   semaphore, converted, original_type, extract_result,
                   image_result, merge_result, poll>>
    /\ UNCHANGED notCombined

\* execute_image_description: whatever is raised while describing the
\* images is caught and returned as the error dict
ImageDescription ==
    /\ cpc = "image"
    /\ \E described \in {"ok", "raises"} :
         LET status == IF described = "ok" THEN "success" ELSE "error"
         IN  /\ image_result' = status
             /\ cpc' = IF ImageFailureRaises(status) THEN "except" ELSE "merge"
             /\ error' = IF ImageFailureRaises(status) THEN "image" ELSE "none"
    /\ UNCHANGED <<variant, queue, enqueued, task_data, loop_sleep, current,
                   semaphore, converted, original_type, extract_result,
                   merge_result, results, poll>>
    /\ UNCHANGED notCombined

\* merge_results: success, or the error dict, which makes the task raise
MergeResults ==
    /\ cpc = "merge"
    /\ \E merged \in {"success", "error"} :
         /\ merge_result' = merged
         /\ cpc' = IF merged = "error" THEN "except" ELSE "finalize"
         /\ error' = IF merged = "error" THEN "merge" ELSE "none"
    /\ UNCHANGED <<variant, queue, enqueued, task_data, loop_sleep, current,
                   semaphore, converted, original_type, extract_result,
                   image_result, results, poll>>
    /\ UNCHANGED notCombined

\* final_result with status success; the upload of the converted PDF may
\* raise; then the result is pushed, or the push raises
PushSuccess ==
    /\ cpc = "finalize"
    /\ \E upload \in {"ok", "raises"}, push \in {"ok", "raises"} :
         IF converted /\ upload = "raises"
         THEN /\ cpc' = "except"
              /\ error' = "upload"
              /\ UNCHANGED results
         ELSE IF push = "raises"
         THEN /\ cpc' = "except"
              /\ error' = "push"
              /\ UNCHANGED results
         ELSE /\ results' = Rpush(results,
                      ResultKey(PushPrefix(variant), RequestId(current.request_id)),
                      ResultRecord("success", current.request_id))
              /\ cpc' = "leave"
              /\ UNCHANGED error
    /\ UNCHANGED <<variant, queue, enqueued, task_data, loop_sleep, current,
                   semaphore, converted, original_type, extract_result,
                   image_result, merge_result, poll>>
    /\ UNCHANGED notCombined

\* except Exception: of process_task / process_combined_task: the error
\* result is pushed; when that push raises, the exception leaves the
\* function (and the async with block) for the consumer loop
PushError ==
    /\ cpc = "except"
    /\ \E push \in {"ok", "raises"} :
         IF push = "ok"
         THEN /\ results' = Rpush(results,
                      ResultKey(PushPrefix(variant), RequestId(current.request_id)),
                      ResultRecord("error", current.request_id))
              /\ cpc' = "leave"
              /\ UNCHANGED <<semaphore, frameVars>>
         ELSE /\ cpc' = RaiseTo("RedisError")
              /\ semaphore' = ReleaseOnRaise(variant, semaphore)
              /\ DropFrame
              /\ UNCHANGED results
    /\ UNCHANGED <<variant, queue, enqueued, task_data, loop_sleep, poll>>
    /\ UNCHANGED notCombined

\* process_combined_task returns, the async with semaphore block is left;
\* back to blpop
LeaveSemaphore ==
    /\ cpc = "leave"
    /\ IsCombinedConsumer(variant)
    /\ semaphore' = semaphore + 1
    /\ DropFrame
    /\ cpc' = "wait"
    /\ UNCHANGED <<variant, queue, enqueued, task_data, loop_sleep, results,
                   poll>>
    /\ UNCHANGED notCombined

\* process_task returns; back to blpop
TaskReturns ==
    /\ cpc = "leave"
    /\ variant = "extract"
    /\ DropFrame
    /\ cpc' = "wait"
    /\ UNCHANGED <<variant, queue, enqueued, task_data, loop_sleep, semaphore,
                   results, poll>>
    /\ UNCHANGED notCombined

\* except Exception as e: logger.error; await asyncio.sleep(5)
LoopExcept ==
    /\ cpc = "loop_except"
    /\ loop_sleep' = ErrorSleep
    /\ cpc' = "error_sleep"
    /\ UNCHANGED <<variant, queue, enqueued, task_data, semaphore, frameVars,
                   results, poll>>
    /\ UNCHANGED notCombined

\* the sleep is over: the next pass of while True
LoopResume ==
    /\ cpc = "error_sleep"
    /\ loop_sleep' = 0
    /\ cpc' = "wait"
    /\ UNCHANGED <<variant, queue, enqueued, task_data, semaphore, frameVars,
                   results, poll>>
    /\ UNCHANGED notCombined

\* redis_client.blpop(key, timeout): the head of the list is returned and
\* removed from it
PopHead_Peek(list) == list

PopHead(list) == Tail(list)

\* get_extract_task_result(task_id): blpop on TASK_RESULT_KEY_PREFIX +
\* task_id; the popped record, or the pending dict after the time-out
PollPrefix_Image == IMAGE_TASK_RESULT_KEY_PREFIX

PollPrefix == TASK_RESULT_KEY_PREFIX

Poll(r) ==
    /\ cpc # "absent"
    /\ LET key == ResultKey(PollPrefix, RequestId(r))
           earlier == IF poll.request_id = r THEN poll.returned ELSE "none"
       IN  IF results[key] # <<>>
           THEN /\ poll' = [request_id |-> r,
                            returned |-> Head(results[key]).status,
                            of |-> Head(results[key]).request_id,
                            earlier |-> earlier]
                /\ results' = [results EXCEPT ![key] = PopHead(@)]
           ELSE /\ poll' = [request_id |-> r, returned |-> "pending",
                            of |-> <<>>, earlier |-> earlier]
                /\ UNCHANGED results
    /\ UNCHANGED <<variant, queue, enqueued, cpc, task_data, loop_sleep,
                   semaphore, frameVars>>
    /\ UNCHANGED notCombined

\* the steps of the loop that both consumers have
LoopStep ==
    \/ Blpop
    \/ Preprocess
    \/ PushError
    \/ LoopExcept
    \/ LoopResume

ConsumerStep ==
    \/ LoopStep
    \/ EnterSemaphore
    \/ ExtractReturns
    \/ ImageDescription
    \/ MergeResults
    \/ PushSuccess
    \/ LeaveSemaphore

TaskConsumerStep ==
    \/ LoopStep
    \/ TaskExtractReturns
    \/ TaskPush
    \/ TaskReturns

\* ========================================================== specifications
\* concurrent process_locally calls on one event loop
\* ==================================================== office to PDF
\* convert_to_pdf of utils/pdf_utils.py (demo.py carries the same function)
\* and convert_to_pdf of services/office_service.py, the one preprocess_file
\* calls.  Both are synchronous.  The file is an office file and LibreOffice
\* has been found: the call is at its conversion attempts.

\* max_attempts: int = 3
convert_max_attempts == 3
\* time.sleep(5) between attempts
RetryDelay == 5

\* what one attempt of pdf_utils.convert_to_pdf does: subprocess.run
\* completes and after the 2 s pause the PDF is there and not empty, is
\* missing, or is empty; subprocess.run raises TimeoutExpired after 300 s;
\* something else raises
ConvertOutcomes == {"pdf", "no_pdf", "empty_pdf", "timeout", "raises"}

\* what the one subprocess.run of office_service.convert_to_pdf does: return
\* code 0 and the PDF is there, return code 0 without the PDF, a nonzero
\* return code, or an exception
OfficeOutcomes == {"pdf", "no_pdf", "nonzero", "raises"}

ConvertStartWith(implementations, position) ==
    /\ implementation \in implementations
    /\ conv_pc = position
    /\ conv_attempt = 0
    /\ conv_outcomes = <<>>
    /\ conv_waits = <<>>
    /\ conv_return = "none"

\* no conversion runs
ConvertIdle == ConvertStartWith({"none"}, "absent")

ConvertStart == ConvertStartWith({"pdf_utils", "office_service"}, "ready")

\* the call reaches its first attempt
ConvertCall ==
    /\ conv_pc = "ready"
    /\ conv_pc' = "attempt"
    /\ conv_attempt' = 1
    /\ UNCHANGED <<implementation, conv_outcomes, conv_waits, conv_return>>
    /\ UNCHANGED <<running, localVars, remoteVars, normVars, combinedVars>>

\* pdf_utils.py:158-190, one pass of for attempt in range(1, max_attempts + 1)
\* up to its sleep: the PDF is returned; a run without a usable PDF and an
\* exception return None on the last attempt and go to time.sleep(5)
\* otherwise; the TimeoutExpired clause only logs, so the loop goes straight
\* to its next pass, and past the last one to the return None of line 190
ConvertAttempt ==
    /\ conv_pc = "attempt"
    /\ implementation = "pdf_utils"
    /\ \E outcome \in ConvertOutcomes :
         /\ conv_outcomes' = Append(conv_outcomes, outcome)
         /\ IF outcome = "pdf"
            THEN /\ conv_pc' = "returned"
                 /\ conv_return' = "pdf_path"
                 /\ UNCHANGED <<conv_attempt, conv_waits>>
            ELSE IF conv_attempt = convert_max_attempts
            THEN /\ conv_pc' = "returned"
                 /\ conv_return' = "None"
                 /\ UNCHANGED <<conv_attempt, conv_waits>>
            ELSE IF outcome = "timeout"
            THEN /\ conv_attempt' = conv_attempt + 1
                 /\ conv_waits' = Append(conv_waits, 0)
                 /\ UNCHANGED <<conv_pc, conv_return>>
            ELSE /\ conv_pc' = "sleep"
                 /\ UNCHANGED <<conv_attempt, conv_waits, conv_return>>
    /\ UNCHANGED implementation
    /\ UNCHANGED <<running, localVars, remoteVars, normVars, combinedVars>>

\* time.sleep(5), lines 179 and 188; then the next pass of the loop
ConvertSleep ==
    /\ conv_pc = "sleep"
    /\ conv_waits' = Append(conv_waits, RetryDelay)
    /\ conv_attempt' = conv_attempt + 1
    /\ conv_pc' = "attempt"
    /\ UNCHANGED <<implementation, conv_outcomes, conv_return>>
    /\ UNCHANGED <<running, localVars, remoteVars, normVars, combinedVars>>

\* office_service.py:88-118: one subprocess.run without a timeout; the PDF
\* path when the return code is 0 and the file exists, else None
OfficeConvert ==
    /\ conv_pc = "attempt"
    /\ implementation = "office_service"
    /\ \E outcome \in OfficeOutcomes :
         /\ conv_outcomes' = Append(conv_outcomes, outcome)
         /\ conv_return' = IF outcome = "pdf" THEN "pdf_path" ELSE "None"
    /\ conv_pc' = "returned"
    /\ UNCHANGED <<implementation, conv_attempt, conv_waits>>
    /\ UNCHANGED <<running, localVars, remoteVars, normVars, combinedVars>>

NextLocal == \E j \in Jobs : Call(j) \/ LocalStep(j)

LocalInit ==
    /\ LocalStart(UniformHardware) /\ RemoteStart /\ ConvertIdle
    /\ NormStart({<<>>}) /\ NoConsumer

SpecLocal == LocalInit /\ [][NextLocal]_vars

\* the same calls on an event loop that gives every coroutine that is ready
\* its turn: a call that stays able to take its next step takes it (the
\* sleeps end, the blocking subprocess and driver calls return)
FairInit ==
    /\ LocalStart({<<>>, <<16000>>}) /\ RemoteStart /\ ConvertIdle
    /\ NormStart({<<>>})
    /\ NoConsumer

\* the one-card hosts with a CUDA build of torch: the finally block releases
\* the cache
CacheInit ==
    /\ LocalStartOn({<<>>, <<16000>>}, TRUE) /\ RemoteStart /\ ConvertIdle
    /\ NormStart({<<>>}) /\ NoConsumer

SpecCache == CacheInit /\ [][NextLocal]_vars

SpecLocalFair ==
    /\ FairInit
    /\ [][NextLocal]_vars
    /\ \A j \in Jobs : WF_vars(LocalStep(j))

\* one process_locally call on every host of Hardware
NextThreshold == Call(1) \/ LocalStep(1)

ThresholdInit ==
    /\ LocalStart(Hardware) /\ RemoteStart /\ ConvertIdle
    /\ NormStart({<<>>}) /\ NoConsumer

SpecThreshold == ThresholdInit /\ [][NextThreshold]_vars

\* concurrent process_remotely calls on one event loop
NextRemote == \E j \in Jobs : RCall(j) \/ RemoteStep(j)

RemoteInit ==
    /\ LocalStart({<<16000>>}) /\ RemoteStart /\ ConvertIdle
    /\ NormStart({<<>>}) /\ NoConsumer

SpecRemote == RemoteInit /\ [][NextRemote]_vars

\* concurrent process_remotely calls and the device-listing route on one
\* event loop
NextDevices == NextRemote \/ ListDevices

SpecDevices == RemoteInit /\ [][NextDevices]_vars

\* normalize_core_files on every dict of CoreFilesInputs
NextNormalize == Normalize \/ NormalizeAgain

NormalizeInit ==
    /\ LocalStart({<<16000>>}) /\ RemoteStart /\ ConvertIdle /\ NoConsumer
    /\ NormStart(CoreFilesInputs)

SpecNormalize == NormalizeInit /\ [][NextNormalize]_vars

\* the combined consumer, the intake layer that feeds it, and the local
\* scheduler and remote dispatcher it calls; the host has no usable card or
\* one
NextCombined ==
    \/ \E t \in Jobs : Enqueue(t)
    \/ ConsumerStep
    \/ \E j \in Jobs : Call(j) \/ LocalStep(j)
    \/ \E j \in Jobs : RCall(j) \/ RemoteStep(j)

CombinedInit ==
    /\ LocalStart({<<>>, <<16000>>}) /\ RemoteStart /\ ConvertIdle
    /\ NormStart({<<>>})
    /\ ConsumerStart

SpecCombined == CombinedInit /\ [][NextCombined]_vars

\* either consumer, the intake layer that feeds it, and the local scheduler
\* and remote dispatcher it calls
NextConsumers ==
    \/ \E t \in Jobs : Enqueue(t)
    \/ ConsumerStep
    \/ TaskConsumerStep
    \/ \E j \in Jobs : Call(j) \/ LocalStep(j)
    \/ \E j \in Jobs : RCall(j) \/ RemoteStep(j)

ConsumersInit ==
    /\ LocalStart({<<>>, <<16000>>}) /\ RemoteStart /\ ConvertIdle
    /\ NormStart({<<>>})
    /\ ConsumerStart \/ TaskConsumerStart

SpecConsumers == ConsumersInit /\ [][NextConsumers]_vars

\* task_consumer, the intake layer, and the callers that poll for results;
\* the jobs are local jobs
NextPoll ==
    \/ \E t \in Jobs : EnqueueLocal(t)
    \/ TaskConsumerStep
    \/ \E r \in Jobs : Poll(r)
    \/ \E j \in Jobs : Call(j) \/ LocalStep(j)

PollInit ==
    /\ LocalStart({<<>>, <<16000>>}) /\ RemoteStart /\ ConvertIdle
    /\ NormStart({<<>>})
    /\ TaskConsumerStart

SpecPoll == PollInit /\ [][NextPoll]_vars

\* ===================================================== local scheduler claims
\* job j has marked a device busy and has not yet set it back to idle
Holding(j) == pc[j] \in {"run", "finally"}

\* N: the number of devices discovery puts in the table
NumDiscovered == Len(Discover(hw))

\* C1: in every reachable state of concurrent process_locally calls the
\* number of jobs holding a device (marked busy, not yet released) is at
\* most the number of discovered devices.
C1_CapacityBound ==
    Cardinality({j \in Jobs : Holding(j)}) <= NumDiscovered

\* a job holds a device while another call is in the middle of its
\* selection loop, holding a token of its own semaphore
C1_Witness ==
    \E j, k \in Jobs :
        j # k /\ Holding(j) /\ pc[k] = "sleep" /\ holds_token[k]

\* C2: a device a job has marked busy is busy in the table and is the
\* selected device of no other job that holds a device.
C2_ExclusiveDevice ==
    \A j \in Jobs :
        Holding(j) =>
            /\ GpuStatusOf(gpu_status, selected_gpu_id[j]) = "busy"
            /\ \A k \in Jobs \ {j} :
                   Holding(k) => selected_gpu_id[k] # selected_gpu_id[j]

\* a job holds a device after another call has re-run discovery and has
\* already scanned at least once
C2_Witness ==
    \E j, k \in Jobs :
        /\ j # k
        /\ pc[j] = "finally"
        /\ pc[k] = "sleep" /\ attempt[k] >= 1
        /\ gpu_semaphore = k

\* C3: a call that marked a device busy returns only through the finally
\* block and the end of the async with block: at the step that returns, the
\* device is idle and the token is back in the semaphore it was taken from,
\* whether the subprocess succeeded, exited nonzero or raised.
C3_ReleaseOnEveryPath ==
    [][\A j \in Jobs :
          /\ (Holding(j) => pc'[j] \in {"run", "finally", "exit"})
          /\ (pc[j] = "exit" /\ pc'[j] = "returned") =>
                 /\ GpuStatusOf(gpu_status', selected_gpu_id[j]) = "idle"
                 /\ ~holds_token'[j]
                 /\ sem_value'[my_sem[j]] = sem_value[my_sem[j]] + 1]_vars

\* a call whose subprocess failed has returned
C3_Witness ==
    \E j \in Jobs : pc[j] = "returned" /\ result[j] = "error"

\* C7: when discovery finds no device, process_locally raises the no-device
\* error at once: it takes no token, does not wait on the semaphore, makes
\* no selection attempt and does not sleep.
C7_NoDeviceRaisesAtOnce ==
    \A j \in Jobs :
        (NumDiscovered = 0 /\ pc[j] \notin {"ready", "init", "discover"}) =>
            /\ pc[j] \in {"check", "raised"}
            /\ pc[j] = "raised" => result[j] = "NoDevice"
            /\ ~holds_token[j]
            /\ attempt[j] = 0
            /\ wait_time[j] = 0

\* the driver reports a card, discovery drops it (memoryTotal = 0), and the
\* call has raised
C7_Witness ==
    /\ Len(hw) > 0
    /\ NumDiscovered = 0
    /\ \E j \in Jobs : pc[j] = "raised" /\ result[j] = "NoDevice"

\* C8 as claimed: the threshold is floor(average total * 0.7), and only
\* devices whose free memory reaches that value are selected.
C8_ThresholdIsFloor ==
    \A j \in Jobs :
        /\ pc[j] \in {"acquire", "scan", "sleep", "run"} =>
               min_required_memory[j] =
                   FloorOfSeventyPercent(SumTotal(gpu_status), Len(gpu_status))
        /\ pc[j] = "run" =>
               \A i \in 1..Len(available_gpus[j]) :
                   available_gpus[j][i][2] >=
                       FloorOfSeventyPercent(SumTotal(gpu_status), Len(gpu_status))

\* Scenario B of the specification: one 16000 MB device gives 11200, and a
\* device with 12000 MB free is taken at the first attempt
C8_ScenarioB ==
    /\ hw = <<16000>>
    /\ pc[1] = "run" /\ attempt[1] = 0
    /\ min_required_memory[1] = 11200
    /\ available_gpus[1] = << <<0, 12000>> >>

\* ==================================================== remote dispatcher claims
\* C4: every attempt of process_remotely ends in the finally block, and at
\* the step that leaves it (to the next pass of the loop, to the return or
\* to the raise) the device the attempt marked busy is idle again.
C4_DeviceRestoredAfterAttempt ==
    [][\A j \in Jobs :
          /\ (rpc[j] \in {"send", "backoff"} =>
                 rpc'[j] \in {"send", "backoff", "finally"})
          /\ (rpc[j] = "finally" /\ rpc'[j] # "finally") =>
                 /\ rpc'[j] \in {"loop", "returned", "raised"}
                 /\ RemoteStatusOf(REMOTE_DEVICES', device[j]) = "idle"]_vars

\* a call has raised an application error on a retry, after a
\* transport-failed attempt
C4_Witness ==
    \E j \in Jobs :
        /\ rpc[j] = "raised" /\ rresult[j] = "RemoteApplicationError"
        /\ Len(outcomes[j]) = 2

\* every send of the call failed at transport level and every selection
\* found a device
AllTransport(j) ==
    /\ rresult[j] # "NoRemoteDevice"
    /\ \A i \in 1..Len(outcomes[j]) : outcomes[j][i] = "transport"

\* C5: with max_retries = 3, a call whose every send fails at transport
\* level and whose every selection finds a healthy device ends by raising
\* the retries-exhausted error after exactly 3 attempts, having slept 2, 4
\* and 8 seconds, one delay after each failed attempt.
C5_ExhaustedAfterThreeAttempts ==
    \A j \in Jobs :
        /\ (rpc[j] \in RemoteTerminal /\ AllTransport(j)) =>
               /\ rpc[j] = "raised" /\ rresult[j] = "RemoteExhausted"
               /\ Len(outcomes[j]) = 3
               /\ selections[j] = 3
               /\ sleeps[j] = <<2, 4, 8>>
        /\ rresult[j] = "RemoteExhausted" => AllTransport(j)

\* a call has raised the retries-exhausted error
C5_Witness ==
    \E j \in Jobs : rpc[j] = "raised" /\ rresult[j] = "RemoteExhausted"

\* an application-level answer: HTTP status other than 200, or a body whose
\* status is not success
AppErrors == {"http_error", "status_error"}

\* C6: an application-level error ends the call: the send that got it is
\* the last one, no retry is counted for it, no back-off sleep follows it,
\* no further selection is made and the call raises; when it answers the
\* first send, the call raises after exactly one attempt.
C6_ApplicationErrorNotRetried ==
    \A j \in Jobs :
        \A i \in 1..Len(outcomes[j]) :
            outcomes[j][i] \in AppErrors =>
                /\ i = Len(outcomes[j])
                /\ retries[j] = i - 1
                /\ Len(sleeps[j]) = i - 1
                /\ selections[j] = i
                /\ rpc[j] \in {"finally", "raised"}
                /\ rresult[j] = "RemoteApplicationError"

\* the first send got an HTTP 500 and the call has raised
C6_Witness ==
    \E j \in Jobs :
        /\ outcomes[j] = <<"http_error">>
        /\ rpc[j] = "raised"
        /\ sleeps[j] = <<>> /\ selections[j] = 1

\* ======================================================= normalisation claims
\* the standard key the ordered table gives each raw key of RawKeys, written
\* out by hand: first pattern of the table occurring in the key, else the
\* base filename
ExpectedKey(k) ==
    CASE k = KeyFooMiddle   -> <<"m", "i", "d", "d", "l", "e", ".", "j", "s", "o", "n">>
      [] k = KeyNotes       -> <<"m", "o", "d", "e", "l", "_", "o", "u", "t", "p", "u", "t", ".", "t", "x", "t">>
      [] k = KeyContentList -> <<"c", "o", "n", "t", "e", "n", "t", "_", "l", "i", "s", "t", ".", "j", "s", "o", "n">>
      [] k = KeyReport      -> <<"r", "e", "s", "u", "l", "t", ".", "m", "d">>
      [] k = KeyData        -> <<"d", "a", "t", "a", ".", "j", "s", "o", "n">>
      [] k = KeyMdTxt       -> <<"m", "o", "d", "e", "l", "_", "o", "u", "t", "p", "u", "t", ".", "t", "x", "t">>

\* the url of the last entry of the input whose key is normalised to k
LastUrlFor(k) ==
    core_files[CHOOSE i \in 1..Len(core_files) :
        /\ ExpectedKey(core_files[i][1]) = k
        /\ \A n \in (i + 1)..Len(core_files) : ExpectedKey(core_files[n][1]) # k][2]

\* C10 (amended): normalize_core_files maps each raw key to the canonical
\* name of the first pattern of the ordered table that occurs in it, and a
\* key that matches no pattern keeps its base filename: foo_middle.json
\* becomes middle.json, notes.txt (it contains .txt) becomes
\* model_output.txt, sub/data.json becomes data.json.
C10_FirstPatternWins ==
    norm_done =>
        /\ DOMAIN normalized =
               {ExpectedKey(core_files[i][1]) : i \in 1..Len(core_files)}
        /\ \A k \in DOMAIN normalized : normalized[k] = LastUrlFor(k)

\* foo_middle.json, notes.txt and an unmatched key have been normalised
C10_Witness ==
    /\ norm_done
    /\ {core_files[i][1] : i \in 1..Len(core_files)} =
           {KeyFooMiddle, KeyNotes, KeyData}
    /\ DOMAIN normalized = {<<"m", "i", "d", "d", "l", "e", ".", "j", "s", "o", "n">>, <<"m", "o", "d", "e", "l", "_", "o", "u", "t", "p", "u", "t", ".", "t", "x", "t">>, <<"d", "a", "t", "a", ".", "j", "s", "o", "n">>}

\* C10 as claimed: notes.txt matches no pattern and keeps its name, and
\* foo_middle.json becomes middle.json.
C10_NotesKeepsItsName ==
    norm_done =>
        \A i \in 1..Len(core_files) :
            /\ core_files[i][1] = KeyNotes => KeyNotes \in DOMAIN normalized
            /\ core_files[i][1] = KeyFooMiddle =>
                   <<"m", "i", "d", "d", "l", "e", ".", "j", "s", "o", "n">> \in DOMAIN normalized

\* C11: normalize_core_files is idempotent: applied to the dict it returned,
\* it returns that dict again.
C11_Idempotent ==
    renorm_done => renormalized = normalized

\* a dict in which two raw keys fell on one standard key, and one key kept
\* its base filename, has been normalised twice
C11_Witness ==
    /\ renorm_done
    /\ {core_files[i][1] : i \in 1..Len(core_files)} =
           {KeyNotes, KeyMdTxt, KeyData}
    /\ Cardinality(DOMAIN renormalized) = 2

\* ==================================================== combined consumer claims
\* the statuses of the records in the result list of request t
PushedStatuses(t) ==
    LET list == results[ResultKey(PushPrefix(variant), RequestId(t))]
    IN  [i \in 1..Len(list) |-> list[i].status]

\* the current job's text extraction succeeded and its image description
\* failed
ImageFailedAfterExtraction ==
    /\ current # NoTask
    /\ extract_result = "success"
    /\ image_result = "error"

\* C9: when the text extraction of a combined job succeeded and its image
\* description failed, the job goes to the error exit: no success result is
\* pushed for it, and the one result it has when process_combined_task
\* returns is the error result.
C9_ImageFailureFailsJob ==
    ImageFailedAfterExtraction =>
        /\ cpc \in {"except", "leave"}
        /\ cpc = "except" => PushedStatuses(current.request_id) = <<>>
        /\ cpc = "leave" => PushedStatuses(current.request_id) = <<"error">>

\* process_combined_task returns for a job whose extraction succeeded and
\* whose image description raised
C9_Witness ==
    /\ ImageFailedAfterExtraction
    /\ cpc = "leave"
    /\ PushedStatuses(current.request_id) = <<"error">>

\* ============================================================ consumer claims
\* request t is in the task queue
InQueue(t) == \E i \in 1..Len(queue) : queue[i].request_id = t

\* request t was taken from the queue and the consumer is done with it
Finished(t) == t \in enqueued /\ ~InQueue(t) /\ current.request_id # t

\* the result list of request t under its consumer's prefix
ResultList(t) == results[ResultKey(PushPrefix(variant), RequestId(t))]

\* C12 as claimed: every job taken from the queue ends with exactly one
\* result in the result list of its request_id, never with none and never
\* with two.
C12_ExactlyOneResult ==
    \A t \in Jobs : Finished(t) => Len(ResultList(t)) = 1

\* the process_remotely / process_locally call of the current task has
\* raised, or has returned the error dict
CallFailed ==
    /\ cpc = "extract"
    /\ IF current.use_remote
       THEN rpc[current.request_id] = "raised"
       ELSE \/ pc[current.request_id] = "raised"
            \/ pc[current.request_id] = "returned"
               /\ result[current.request_id] = "error"

\* C13: a failure of the local or the remote path stays inside
\* process_task / process_combined_task: the step that takes it up makes the
\* error result and goes to the code that pushes it, never to the consumer
\* loop's handler, and what is then pushed for the job is the error record.
C13_FailuresBecomeErrorResults ==
    [][/\ (CallFailed /\ cpc' # "extract") =>
              /\ extract_result' = "error"
              /\ error' \in {"NoDevice", "NoDeviceAvailable", "LocalExecution",
                             "NoRemoteDevice", "RemoteApplicationError",
                             "RemoteExhausted"}
              /\ cpc' \in {"except", "publish"}
       /\ (extract_result = "error" /\ results' # results) =>
              results' = Rpush(results,
                               ResultKey(PushPrefix(variant),
                                         RequestId(current.request_id)),
                               ResultRecord("error", current.request_id))]_vars

\* the local path found no card with enough free memory in ten attempts and
\* the job has got its error result
C13_Witness ==
    /\ cpc = "leave"
    /\ error = "NoDeviceAvailable"
    /\ ResultList(current.request_id) =
           <<ResultRecord("error", current.request_id)>>

\* C14 as claimed: a remote device is busy only while an attempt on it is
\* under way (sent, or its finally block about to run), so not during the
\* back-off sleep between two attempts.
C14_BusyOnlyInFlight ==
    \A d \in RemoteDevs :
        RemoteStatusOf(REMOTE_DEVICES, d) = "busy" =>
            \E j \in Jobs : device[j] = d /\ rpc[j] \in {"send", "finally"}

\* the positions inside process_task / process_combined_task (for the
\* combined consumer: inside `async with semaphore`)
ProcessingPositions ==
    {"preprocess", "extract", "image", "merge", "finalize", "publish",
     "except", "leave"}

\* the jobs that are in the processing step
InProcessing ==
    {t \in Jobs : cpc \in ProcessingPositions /\ current.request_id = t}

C16_DequeuesWhileProcessing ==
    ( /\ InProcessing # {}
      /\ Cardinality(InProcessing) < ConsumerConcurrency
      /\ queue # <<>> ) => ENABLED Blpop

\* the phase of the consumer at position c of its loop: PUBLISH_RESULT is
\* the point where the result of the job has been pushed
Phase(c) ==
    CASE c = "wait" -> "WAIT_FOR_JOB"
      [] c \in {"enter"} \cup (ProcessingPositions \ {"leave"}) -> "PROCESSING"
      [] c = "leave" -> "PUBLISH_RESULT"
      [] OTHER -> "LOOP_EXCEPT"

\* the phases that may follow phase p in one step (the exit to the loop's
\* exception handler is the subject of C18)
PhaseSuccessors(p) ==
    CASE p = "WAIT_FOR_JOB" -> {"PROCESSING", "LOOP_EXCEPT"}
      [] p = "PROCESSING" -> {"PUBLISH_RESULT", "LOOP_EXCEPT"}
      [] p = "PUBLISH_RESULT" -> {"WAIT_FOR_JOB"}
      [] OTHER -> {"WAIT_FOR_JOB"}

C18_LoopCatchesAndSleeps ==
    /\ [](/\ cpc # "crashed"
          /\ cpc \in {"loop_except", "error_sleep"} =>
                 semaphore = ConsumerConcurrency
          /\ loop_sleep = (IF cpc = "error_sleep" THEN ErrorSleep ELSE 0))
    /\ [][/\ (cpc = "loop_except" /\ cpc' # cpc) => cpc' = "error_sleep"
          /\ (cpc = "error_sleep" /\ cpc' # cpc) => cpc' = "wait"
          /\ (cpc' = "loop_except" /\ cpc # cpc') =>
                 cpc \in {"wait"} \cup ProcessingPositions
          /\ (cpc' = "wait" /\ cpc \in ProcessingPositions) => cpc = "leave"
         ]_vars

\* a task was dequeued by the combined consumer, the iteration raised, and
\* the consumer is in its 5-second sleep with all permits free
C18_Witness ==
    /\ variant = "combined"
    /\ cpc = "error_sleep"
    /\ loop_sleep = ErrorSleep
    /\ task_data = "task"
    /\ 1 \in enqueued
    /\ semaphore = ConsumerConcurrency

C20_UnsupportedRejectedFirst ==
    /\ [](original_type = "None" =>
              /\ ~converted
              /\ error = "unsupported"
              /\ cpc \in {"except", "leave"}
              /\ pc[current.request_id] = "ready"
              /\ rpc[current.request_id] = "ready"
              /\ ~holds_token[current.request_id]
              /\ device[current.request_id] = NoJob
              /\ \A i \in DOMAIN gpu_status : gpu_status[i].status # "busy"
              /\ \A d \in RemoteDevs :
                     RemoteStatusOf(REMOTE_DEVICES, d) # "busy"
              /\ cpc = "leave" =>
                     ResultList(current.request_id) =
                         <<ResultRecord("error", current.request_id)>>)
    /\ [][(original_type = "None" \/ original_type' = "None") =>
              UNCHANGED <<localVars, remoteVars>>]_vars

\* the first job was extracted with success; the second has an unsupported
\* extension and has got its error result
C20_Witness ==
    /\ current.request_id = 2
    /\ original_type = "None"
    /\ cpc = "leave"
    /\ ResultList(1) = <<ResultRecord("success", 1)>>
    /\ ResultList(2) = <<ResultRecord("error", 2)>>

\* ============================================ local scheduler claims, part 2
\* job j is in its selection loop, or at the raise that follows it
Selecting(j) == pc[j] \in {"scan", "sleep", "giveup"}

\* C21: a call that found no qualifying device in any of its 10 attempts
\* raises the no-device-available error; at the raise its token is back in
\* the semaphore it was taken from, it has selected no device, and none of
\* its steps from the first scan to the raise changed the device table.
C21_GiveUpReleasesToken ==
    /\ [](\A j \in Jobs :
            /\ pc[j] = "giveup" =>
                   /\ attempt[j] = 10
                   /\ selected_gpu_id[j] = NoGpu
                   /\ holds_token[j]
            /\ result[j] = "NoDeviceAvailable" =>
                   /\ pc[j] = "raised"
                   /\ ~holds_token[j]
                   /\ selected_gpu_id[j] = NoGpu)
    /\ [][\A j \in Jobs :
            /\ (Selecting(j) /\ pc'[j] # pc[j] /\ pc'[j] # "run") =>
                   /\ gpu_status' = gpu_status
                   /\ pc'[j] \in {"scan", "sleep", "giveup", "raised"}
            /\ (pc[j] = "scan" /\ pc'[j] = "giveup") => FALSE
            /\ (pc[j] = "giveup" /\ pc'[j] # "giveup") =>
                   /\ pc'[j] = "raised"
                   /\ result'[j] = "NoDeviceAvailable"
                   /\ sem_value'[my_sem[j]] = sem_value[my_sem[j]] + 1
                   /\ ~holds_token'[j]]_vars

\* a call has given up while another call, which re-ran discovery, is still
\* in its selection loop
C21_Witness ==
    \E j, k \in Jobs :
        /\ j # k
        /\ pc[j] = "raised" /\ result[j] = "NoDeviceAvailable"
        /\ pc[k] = "sleep" /\ gpu_semaphore = k

\* ========================================= remote dispatcher claims, part 2
\* C22: a selection that finds no idle device ends the call at once with
\* the no-remote-device error: that step counts no retry, sleeps no
\* back-off, sends nothing and leaves no device busy, and the call makes no
\* further selection; a selection that goes on to send has a device.
C22_NoRemoteDeviceIsTerminal ==
    /\ [](\A j \in Jobs :
            rresult[j] = "NoRemoteDevice" =>
                /\ rpc[j] = "raised"
                /\ device[j] = NoJob
                /\ selections[j] = retries[j] + 1
                /\ Len(sleeps[j]) = retries[j]
                /\ Len(outcomes[j]) = retries[j])
    /\ [][\A j \in Jobs :
            /\ (rpc[j] = "select" /\ rpc'[j] = "raised") =>
                   /\ rresult'[j] = "NoRemoteDevice"
                   /\ retries'[j] = retries[j]
                   /\ sleeps'[j] = sleeps[j]
                   /\ outcomes'[j] = outcomes[j]
                   /\ \A d \in RemoteDevs :
                          RemoteStatusOf(REMOTE_DEVICES', d) = "error"
            /\ (rpc[j] = "select" /\ rpc'[j] = "send") =>
                   /\ device'[j] \in RemoteDevs
                   /\ RemoteStatusOf(REMOTE_DEVICES', device'[j]) = "busy"
            /\ rresult[j] = "NoRemoteDevice" =>
                   /\ rpc'[j] = "raised"
                   /\ selections'[j] = selections[j]
                   /\ sleeps'[j] = sleeps[j]]_vars

\* the first send failed at transport level and the selection of the retry
\* found every device unhealthy
C22_Witness ==
    \E j \in Jobs :
        /\ rpc[j] = "raised" /\ rresult[j] = "NoRemoteDevice"
        /\ outcomes[j] = <<"transport">>
        /\ selections[j] = 2
        /\ sleeps[j] = <<2>>

\* the positions of the table gs whose device is idle and reads at least
\* min_memory_mb of free memory
QualifyingAt(gs, free, min_memory_mb) ==
    {g \in 1..Len(gs) :
        gs[g].status = "idle" /\ free[gs[g].id] >= min_memory_mb}

\* C23: the device a job marks busy was idle in the table and read at least
\* min_required_memory of free memory at the scan of that attempt, no
\* qualifying device of that scan read more, and the scan's list holds
\* exactly the qualifying devices: for some reading of the devices' free
\* memory, the list is the idle devices at or above the threshold and the
\* selected one has the most.
C23_SelectsBestQualifying ==
    [][\A j \in Jobs :
          (pc[j] = "scan" /\ pc'[j] = "run") =>
              /\ GpuStatusOf(gpu_status, selected_gpu_id'[j]) = "idle"
              /\ GpuStatusOf(gpu_status', selected_gpu_id'[j]) = "busy"
              /\ \E free \in FreeReadings(hw) :
                   LET Q == QualifyingAt(gpu_status, free, min_required_memory[j])
                       avail == available_gpus'[j]
                   IN  /\ Len(avail) = Cardinality(Q)
                       /\ {avail[i] : i \in 1..Len(avail)} =
                              {<<gpu_status[g].id, free[gpu_status[g].id]>> : g \in Q}
                       /\ \E g \in Q :
                            /\ gpu_status[g].id = selected_gpu_id'[j]
                            /\ free[gpu_status[g].id] >= min_required_memory[j]
                            /\ \A h \in Q : free[gpu_status[h].id] <=
                                                free[gpu_status[g].id]]_vars

\* two devices qualified with different readings, and the job holds the
\* second one of the table, which read more
C23_Witness ==
    \E j \in Jobs :
        /\ pc[j] = "run"
        /\ Len(available_gpus[j]) = 2
        /\ available_gpus[j][1][2] < available_gpus[j][2][2]
        /\ selected_gpu_id[j] = available_gpus[j][2][1]

\* the largest free-memory reading of the list avail of (id, free) pairs
MostFree(avail) ==
    CHOOSE f \in {avail[i][2] : i \in 1..Len(avail)} :
        \A i \in 1..Len(avail) : avail[i][2] <= f

\* the first position of avail that has that reading
FirstWithMostFree(avail) ==
    CHOOSE i \in 1..Len(avail) :
        /\ avail[i][2] = MostFree(avail)
        /\ \A k \in 1..(i - 1) : avail[k][2] # MostFree(avail)

\* C24: the selection is a function of the scan's list (the qualifying
\* devices in table order, with their readings): the device selected is the
\* first one of the list that has the most free memory, so equal lists give
\* equal selections and a tie goes to the device earliest in the table.
C24_DeterministicTieBreak ==
    [][\A j \in Jobs :
          (pc[j] = "scan" /\ pc'[j] = "run") =>
              /\ available_gpus'[j] # <<>>
              /\ \A i \in 1..(Len(available_gpus'[j]) - 1) :
                     \E g, h \in 1..Len(gpu_status) :
                         /\ g < h
                         /\ gpu_status[g].id = available_gpus'[j][i][1]
                         /\ gpu_status[h].id = available_gpus'[j][i + 1][1]
              /\ selected_gpu_id'[j] =
                     available_gpus'[j][FirstWithMostFree(available_gpus'[j])][1]
      ]_vars

\* two devices qualified with the same reading and the job holds the first
\* one of the table
C24_Witness ==
    \E j \in Jobs :
        /\ pc[j] = "run"
        /\ Len(available_gpus[j]) = 2
        /\ available_gpus[j][1][2] = available_gpus[j][2][2]
        /\ selected_gpu_id[j] = available_gpus[j][1][1]
        /\ selected_gpu_id[j] = gpu_status[1].id

\* C25: a job makes its selection attempts holding a token and makes at
\* most 10 of them; the k-th attempt that finds no device is followed by a
\* sleep of 15 * k seconds and then by the next attempt (or, after the
\* 10th, by the end of the loop), and an attempt that finds a device is
\* followed by no sleep: the job goes on at once.
C25_LinearBackoff ==
    /\ [](\A j \in Jobs :
            /\ attempt[j] \in 0..10
            /\ pc[j] = "scan" => (attempt[j] <= 9 /\ holds_token[j])
            /\ pc[j] = "sleep" =>
                   (wait_time[j] = 15 * (attempt[j] + 1) /\ holds_token[j])
            /\ pc[j] = "run" => wait_time[j] = 15 * attempt[j])
    /\ [][\A j \in Jobs :
            /\ (pc[j] = "scan" /\ pc'[j] = "sleep") =>
                   /\ available_gpus'[j] = <<>>
                   /\ wait_time'[j] = 15 * (attempt[j] + 1)
                   /\ running' = NoJob
            /\ (pc[j] = "scan" /\ pc'[j] = "run") =>
                   /\ available_gpus'[j] # <<>>
                   /\ wait_time'[j] = wait_time[j]
                   /\ running' = j
            /\ (pc[j] = "sleep" /\ pc'[j] # "sleep") =>
                   /\ attempt'[j] = attempt[j] + 1
                   /\ pc'[j] = IF attempt[j] + 1 < 10 THEN "scan" ELSE "giveup"
      ]_vars

\* a job found a device at its 10th attempt, after sleeps of 15, 30, ...,
\* 135 seconds
C25_Witness ==
    \E j \in Jobs :
        /\ pc[j] = "run"
        /\ attempt[j] = 9
        /\ wait_time[j] = 135

\* the first k - 1 sends of the call failed at transport level and the k-th
\* was answered with success
SucceededAtAttempt(j, k) ==
    /\ Len(outcomes[j]) = k
    /\ outcomes[j][k] = "ok"
    /\ \A i \in 1..(k - 1) : outcomes[j][i] = "transport"

\* C26: when the first k - 1 attempts fail at transport level and the k-th
\* succeeds (k <= max_retries = 3), the call returns the k-th attempt's
\* result: it has slept 2^i seconds after the i-th failure, has selected a
\* device once per attempt, and sends nothing after the success.
C26_SuccessAfterRetries ==
    /\ [](\A j \in Jobs :
            /\ \A k \in 1..3 :
                   SucceededAtAttempt(j, k) =>
                       /\ rpc[j] \in {"finally", "returned"}
                       /\ rresult[j] = "success"
                       /\ retries[j] = k - 1
                       /\ selections[j] = k
                       /\ sleeps[j] = [i \in 1..(k - 1) |-> 2 ^ i]
            /\ rpc[j] = "returned" =>
                   /\ rresult[j] = "success"
                   /\ \E k \in 1..3 : SucceededAtAttempt(j, k))
    /\ [][\A j \in Jobs :
            /\ (rpc[j] = "finally" /\ rresult[j] = "success"
                                   /\ rpc'[j] # "finally") =>
                   rpc'[j] = "returned"
            /\ rresult[j] = "success" =>
                   /\ outcomes'[j] = outcomes[j]
                   /\ selections'[j] = selections[j]
                   /\ sleeps'[j] = sleeps[j]
                   /\ rresult'[j] = "success"
            /\ (rpc[j] = "backoff" /\ rpc'[j] = "send") => FALSE
            /\ (rpc[j] = "select" /\ rpc'[j] = "send") =>
                   selections'[j] = Len(outcomes[j]) + 1]_vars

\* a call has returned the result of its third attempt
C26_Witness ==
    \E j \in Jobs :
        /\ rpc[j] = "returned"
        /\ outcomes[j] = <<"transport", "transport", "ok">>
        /\ sleeps[j] = <<2, 4>>
        /\ selections[j] = 3

\* the first device of the list that the probes of one sweep found healthy,
\* or NoJob
FirstHealthy(health) ==
    IF \E d \in RemoteDevs : health[d]
    THEN CHOOSE d \in RemoteDevs : health[d] /\ \A e \in 1..(d - 1) : ~health[e]
    ELSE NoJob

\* C27: one call of get_available_remote_device rewrites the status of
\* every device from its probe (idle when healthy, error otherwise) and
\* returns the first healthy device of the list, or nothing when none is
\* healthy: after the selection step every device but the returned one is
\* idle or error as its probe said, the returned one (which process_remotely
\* marks busy at once) was probed healthy and every device before it was
\* not.
C27_SweepReturnsFirstHealthy ==
    [][\A j \in Jobs :
          (rpc[j] = "select" /\ rpc'[j] # "select") =>
              \E health \in [RemoteDevs -> BOOLEAN] :
                  /\ device'[j] = FirstHealthy(health)
                  /\ rpc'[j] = IF FirstHealthy(health) = NoJob
                               THEN "raised" ELSE "send"
                  /\ \A d \in RemoteDevs :
                         RemoteStatusOf(REMOTE_DEVICES', d) =
                             IF d = FirstHealthy(health) THEN "busy"
                             ELSE IF health[d] THEN "idle" ELSE "error"]_vars

\* the probe of the first device failed and the second device was returned
C27_Witness ==
    \E j \in Jobs :
        /\ rpc[j] = "send"
        /\ device[j] = 2
        /\ RemoteStatusOf(REMOTE_DEVICES, 1) = "error"
        /\ RemoteStatusOf(REMOTE_DEVICES, 2) = "busy"

\* dispatch j has marked its device busy and has not yet run the finally
\* block that restores it
Dispatching(j) == rpc[j] \in {"send", "backoff", "finally"}

\* C28 as claimed: from the moment a dispatch has marked a device busy until
\* its finally block restores it, the device stays busy in the table and is
\* the device of no other dispatch.
C28_BusyDeviceIsKept ==
    \A j \in Jobs :
        Dispatching(j) =>
            /\ RemoteStatusOf(REMOTE_DEVICES, device[j]) = "busy"
            /\ \A k \in Jobs \ {j} : Dispatching(k) => device[k] # device[j]

\* ============================================ local scheduler claims, part 3
\* job j runs init_gpu_resources when an earlier call has already built the
\* table and the semaphore
DiscoversAgain(j) ==
    pc[j] = "discover" /\ pc'[j] = "check" /\ gpu_semaphore # NoJob

\* C29 as claimed: a repeated discovery on unchanged hardware leaves the
\* device table and the number of available tokens of the current semaphore
\* as they were.
C29_DiscoveryIsIdempotent ==
    [][\A j \in Jobs :
          DiscoversAgain(j) =>
              /\ gpu_status' = gpu_status
              /\ sem_value'[gpu_semaphore'] = sem_value[gpu_semaphore]]_vars

\* job j takes a step that reads or writes the device table under
\* async_gpu_lock: a scan (of the selection loop, or the one before the
\* subprocess starts), the mark-busy that follows a scan, the mark-idle of
\* the finally block
AccessesTable(j) ==
    pc[j] \in {"scan", "run", "finally"} /\ pc'[j] # pc[j]

\* C30: the accesses to the device table never overlap: the table changes
\* only in a step of one job, and while a discovery holds sync_gpu_lock
\* (between taking the lock and having replaced the table) no scan, no
\* mark-busy and no mark-idle of any job takes place and no second
\* discovery starts.
C30_TableAccessExclusive ==
    /\ [](sync_gpu_lock # NoJob => pc[sync_gpu_lock] = "discover")
    /\ [][/\ \A j \in Jobs :
               AccessesTable(j) =>
                   /\ sync_gpu_lock = NoJob
                   /\ sync_gpu_lock' = NoJob
          /\ \A j \in Jobs :
               (pc[j] = "init" /\ pc'[j] = "discover") => sync_gpu_lock = NoJob
          /\ gpu_status' # gpu_status =>
               \E j \in Jobs :
                   /\ pc[j] \in {"discover", "scan", "finally"}
                   /\ pc'[j] # pc[j]
                   /\ \A k \in Jobs \ {j} : pc'[k] = pc[k]]_vars

\* a discovery is replacing the table while another job sleeps between two
\* scans of its selection loop
C30_Witness ==
    \E j, k \in Jobs :
        /\ j # k
        /\ sync_gpu_lock = j
        /\ pc[k] = "sleep"
        /\ gpu_status # <<>>

\* ------------------------------------------------------------------- C31
\* C31: when releasing the CUDA cache in the finally block of a local job
\* fails, nothing is raised: right after the finally block the job's device
\* is idle in the table and the job still has the result the subprocess step
\* produced (success for exit code 0, error otherwise), and the job's next
\* step returns that result and gives its capacity token back to the
\* semaphore it took it from.
C31_CacheFailureNotRaised ==
    [][\A j \in Jobs :
          /\ (pc[j] = "finally" /\ pc'[j] = "exit"
                  /\ cache_release'[j] = "failed") =>
                 /\ GpuStatusOf(gpu_status', selected_gpu_id[j]) = "idle"
                 /\ result'[j] = result[j]
                 /\ result'[j] = IF proc[j] = "ok" THEN "success" ELSE "error"
                 /\ holds_token'[j]
          /\ (pc[j] = "exit" /\ cache_release[j] = "failed"
                  /\ pc'[j] # "exit") =>
                 /\ pc'[j] = "returned"
                 /\ result'[j] = result[j]
                 /\ ~holds_token'[j]
                 /\ sem_value'[my_sem[j]] = sem_value[my_sem[j]] + 1]_vars

\* a job whose subprocess failed and whose cache release failed as well is
\* about to return
C31_Witness ==
    \E j \in Jobs :
        /\ pc[j] = "exit"
        /\ cache_release[j] = "failed"
        /\ proc[j] = "nonzero"
        /\ result[j] = "error"

\* ------------------------------------------------------------------- C32
\* the message has the text as one of its parts
Embeds(message, text) == \E i \in 1..Len(message) : message[i] = text

\* the local call of request t has returned the error dict of a nonzero exit
NonzeroExitReturned(t) ==
    /\ pc[t] = "returned"
    /\ result[t] = "error"
    /\ Embeds(error_message[t], LogContent(t))

C33_OneDeviceThroughout ==
    [][\A j \in Jobs :
          /\ (pc[j] = "scan" /\ pc'[j] = "run") =>
                 GpuStatusOf(gpu_status', selected_gpu_id'[j]) = "busy"
          /\ (pc[j] = "run" /\ pc'[j] = "finally") =>
                 /\ selected_gpu_id'[j] = selected_gpu_id[j]
                 /\ result_gpu_id'[j] = selected_gpu_id[j]
                 /\ proc'[j] # "exception" => pinned'[j] = selected_gpu_id[j]
                 /\ GpuStatusOf(gpu_status', selected_gpu_id[j]) = "busy"
          /\ (pc[j] = "finally" /\ pc'[j] = "exit") =>
                 /\ GpuStatusOf(gpu_status, selected_gpu_id[j]) = "busy"
                 /\ gpu_status' =
                        SetGpuStatus(gpu_status, selected_gpu_id[j], "idle")
                 /\ result_gpu_id'[j] = selected_gpu_id[j]
                 /\ \A k \in Jobs \ {j} :
                        selected_gpu_id[k] # selected_gpu_id[j]]_vars

\* a job that selected the second card has run its subprocess on it while
\* another job is suspended in its selection back-off
C33_Witness ==
    \E j \in Jobs :
        /\ pc[j] = "finally"
        /\ selected_gpu_id[j] = 1
        /\ pinned[j] = 1
        /\ result_gpu_id[j] = 1
        /\ \E k \in Jobs \ {j} : pc[k] = "sleep"

\* ------------------------------------------------------------------- C34
\* C34: while the consumer processes a task with use_remote set, no step
\* changes the local device table, the capacity semaphore or its tokens, or
\* starts a process_locally call, and the extraction ends only when the
\* task's process_remotely call has returned or raised; while it processes a
\* task with use_remote unset, no step changes the status of a remote
\* device or starts a process_remotely call, and the extraction ends only
\* when the task's process_locally call has returned or raised.
C34_OnlyTheChosenPath ==
    [][current # NoTask =>
          IF current.use_remote
          THEN /\ UNCHANGED <<gpu_status, gpu_semaphore, sem_value,
                              holds_token, pc>>
               /\ (cpc = "extract" /\ cpc' # "extract") =>
                      rpc[current.request_id] \in RemoteTerminal
          ELSE /\ UNCHANGED <<REMOTE_DEVICES, probed, rpc>>
               /\ (cpc = "extract" /\ cpc' # "extract") =>
                      pc[current.request_id] \in LocalTerminal]_vars

\* the remote call of a use_remote task has returned, on a host whose device
\* table an earlier local task has filled
C34_Witness ==
    /\ cpc = "extract"
    /\ current.use_remote
    /\ rpc[current.request_id] = "returned"
    /\ gpu_status # <<>>
    /\ \A j \in Jobs : pc[j] = "ready"

\* ------------------------------------------------------------------- C35
\* C35: in the combined consumer the three steps run in order and each
\* needs the one before it: image description is started only after text
\* extraction returned success, merging only after image description
\* returned success, and a record with status success is pushed only when
\* all three returned success.  When text extraction failed, image
\* description and merging have not run, and every record pushed for the
\* task has status error.
C35_SuccessNeedsAllThree ==
    [][variant = "combined" =>
          /\ image_result' # image_result /\ image_result' # "none" =>
                 /\ cpc = "image"
                 /\ extract_result = "success"
                 /\ merge_result = "none"
          /\ merge_result' # merge_result /\ merge_result' # "none" =>
                 /\ cpc = "merge"
                 /\ extract_result = "success"
                 /\ image_result = "success"
          /\ extract_result' = "error" =>
                 /\ image_result' = "none"
                 /\ merge_result' = "none"
                 /\ cpc' \notin {"image", "merge", "finalize"}
          /\ \A key \in DOMAIN results :
                 results'[key] # results[key] =>
                     IF results'[key][Len(results'[key])].status = "success"
                     THEN /\ extract_result = "success"
                          /\ image_result = "success"
                          /\ merge_result = "success"
                     ELSE results'[key][Len(results'[key])].status = "error"]_vars

\* text extraction of a combined task has failed, and the error record has
\* been pushed without image description having run
C35_Witness ==
    /\ variant = "combined"
    /\ cpc = "leave"
    /\ extract_result = "error"
    /\ image_result = "none"
    /\ PushedStatuses(current.request_id) = <<"error">>

\* ================================================ the consumer of demo.py
\* demo.py's process_combined_task: convert to PDF, describe the images of
\* the PDF, put the descriptions back into the PDF, extract the text of the
\* result.  The loop around it (demo.py:625-647) is combined_task_consumer's.
DemoConsumerStart == ConsumerStartAt("demo", "wait")

\* demo.py:542-549: convert_to_pdf returns the input path of a PDF, the path
\* of the converted PDF, or None (unsupported type, no LibreOffice, every
\* attempt failed), and None makes the task raise
DemoConvert ==
    /\ cpc = "preprocess"
    /\ variant = "demo"
    /\ \E pdf \in {"is_pdf", "converted", "None"} :
         /\ original_type' = IF pdf = "is_pdf" THEN "pdf" ELSE "office"
         /\ converted' = (pdf = "converted")
         /\ error' = IF pdf = "None" THEN "convert_failed" ELSE "none"
         /\ cpc' = IF pdf = "None" THEN "except" ELSE "image"
    /\ UNCHANGED <<variant, queue, enqueued, task_data, loop_sleep, current,
                   semaphore, extract_result, image_result, merge_result,
                   results, poll>>
    /\ UNCHANGED notCombined

\* demo.py:553-573: generate_image_descriptions (440-502) never raises: its
\* except block logs the error and returns [], the value it also returns
\* for a PDF without visible images.  An empty list is logged as a warning
\* and the original PDF is used; a failed replacement is a warning as well.
\* image_result records what happened inside generate_image_descriptions.
DemoImageDescriptions ==
    /\ cpc = "image"
    /\ variant = "demo"
    /\ \E described \in {"ok", "no_images", "raises"} :
         image_result' = IF described = "raises" THEN "error" ELSE "success"
    /\ cpc' = "extract"
    /\ UNCHANGED <<variant, queue, enqueued, task_data, loop_sleep, current,
                   semaphore, converted, original_type, extract_result,
                   merge_result, error, results, poll>>
    /\ UNCHANGED notCombined

\* demo.py:577-586: execute_text_extraction returns and the frame of the
\* call it awaited is dropped; its error dict makes the task raise
DemoExtractReturns ==
    /\ cpc = "extract"
    /\ variant = "demo"
    /\ running = NoJob
    /\ LET t == current.request_id
           failure == ExtractionFailure(t, current.use_remote)
       IN  /\ IF current.use_remote
              THEN rpc[t] \in RemoteTerminal
              ELSE pc[t] \in LocalTerminal
           /\ \E collect \in {"ok", "raises"} :
                LET ok == collect = "ok" /\ failure = "none"
                IN  /\ extract_result' = IF ok THEN "success" ELSE "error"
                    /\ error' = IF failure # "none" THEN failure
                                ELSE IF ok THEN "none" ELSE "collect"
                    /\ cpc' = IF ok THEN "finalize" ELSE "except"
           /\ DropCallFrame(t)
    /\ UNCHANGED <<variant, queue, enqueued, task_data, loop_sleep, current,
                   semaphore, converted, original_type, image_result,
                   merge_result, results, poll>>

\* demo.py:589-609: the uploads may raise; the success record is pushed, or
\* the push raises
DemoPushSuccess ==
    /\ cpc = "finalize"
    /\ variant = "demo"
    /\ \E upload \in {"ok", "raises"}, push \in {"ok", "raises"} :
         IF upload = "raises"
         THEN /\ cpc' = "except"
              /\ error' = "upload"
              /\ UNCHANGED results
         ELSE IF push = "raises"
         THEN /\ cpc' = "except"
              /\ error' = "push"
              /\ UNCHANGED results
         ELSE /\ results' = Rpush(results,
                      ResultKey(PushPrefix(variant), RequestId(current.request_id)),
                      ResultRecord("success", current.request_id))
              /\ cpc' = "leave"
              /\ UNCHANGED error
    /\ UNCHANGED <<variant, queue, enqueued, task_data, loop_sleep, current,
                   semaphore, converted, original_type, extract_result,
                   image_result, merge_result, poll>>
    /\ UNCHANGED notCombined

DemoConsumerStep ==
    \/ Blpop
    \/ EnterSemaphore
    \/ DemoConvert
    \/ DemoImageDescriptions
    \/ DemoExtractReturns
    \/ DemoPushSuccess
    \/ PushError
    \/ LeaveSemaphore
    \/ LoopExcept
    \/ LoopResume

\* convert_to_pdf on an office file, in either implementation
NextConvert == ConvertCall \/ ConvertAttempt \/ ConvertSleep \/ OfficeConvert

ConvertInit ==
    /\ LocalStart({<<16000>>}) /\ RemoteStart /\ NormStart({<<>>})
    /\ NoConsumer /\ ConvertStart

SpecConvert == ConvertInit /\ [][NextConvert]_vars

\* the consumer of demo.py, the intake layer that feeds it, and the local
\* scheduler and remote dispatcher it calls
NextDemo ==
    \/ \E t \in Jobs : Enqueue(t)
    \/ DemoConsumerStep
    \/ \E j \in Jobs : Call(j) \/ LocalStep(j)
    \/ \E j \in Jobs : RCall(j) \/ RemoteStep(j)

DemoInit ==
    /\ LocalStart({<<>>, <<16000>>}) /\ RemoteStart /\ ConvertIdle
    /\ NormStart({<<>>})
    /\ DemoConsumerStart

SpecDemo == DemoInit /\ [][NextDemo]_vars

\* ------------------------------------------------------------------- C36
\* C36: in the consumer of demo.py, once generating the image descriptions
\* of a task has raised, no record with status success is pushed for that
\* task.
C36_ImageFailureFailsDemoJob ==
    [][(variant = "demo" /\ image_result = "error") =>
          \A key \in DOMAIN results :
              results'[key] # results[key] =>
                  results'[key][Len(results'[key])].status # "success"]_vars

\* ------------------------------------------------------------------- C37
\* C37: on a fair event loop, with every subprocess terminating, every
\* process_locally call that has started eventually returns or raises (a
\* request is called once, so from some moment on every request is either
\* not called or has returned or raised); no
\* call is ever left waiting for a capacity token (a call takes its token
\* from the semaphore its own discovery has just created, so it is never
\* suspended on it, whatever discovery other calls run meanwhile, and on a
\* host without usable devices no call reaches the semaphore at all); and a
\* call makes at most max_attempts = 10 selection attempts.
C37_EveryCallEnds ==
    /\ <>[](\A j \in Jobs : pc[j] \in LocalTerminal \cup {"ready"})
    /\ [](\A j \in Jobs :
             /\ pc[j] \in {"scan", "sleep"} => attempt[j] < max_attempts
             /\ attempt[j] <= max_attempts
             /\ pc[j] # "sem_wait"
             /\ (gpu_status = <<>> /\ pc[j] # "ready") =>
                    pc[j] \in {"init", "lock_wait", "discover", "check",
                               "raised"})

\* a call is in its tenth back-off sleep (150 s) while another call has
\* raised on its own tenth attempt
C37_Witness ==
    \E j, k \in Jobs :
        /\ pc[j] = "sleep"
        /\ attempt[j] = max_attempts - 1
        /\ wait_time[j] = 150
        /\ pc[k] = "raised"
        /\ result[k] = "NoDeviceAvailable"

\* ------------------------------------------------------------------- C38
\* C38: the list of remote devices is the configured one in every state (the
\* same NumRemote names in the same order; health checks and dispatch add
\* and remove nothing), every status is idle, busy or error, and a sweep
\* leaves a device in status error exactly when its probe failed: a device
\* that was in status error and whose probe succeeds is idle after the
\* sweep (busy when the sweeping call takes it at once).
C38_DevicesAreNeverRemoved ==
    [][/\ Len(REMOTE_DEVICES') = NumRemote
       /\ \A d \in 1..NumRemote :
              /\ REMOTE_DEVICES'[d].name = d
              /\ REMOTE_DEVICES'[d].status \in {"idle", "busy", "error"}
       /\ \A j \in Jobs :
              selections'[j] # selections[j] =>
                  \A d \in 1..NumRemote :
                      REMOTE_DEVICES'[d].status =
                          IF ~probed'[d] THEN "error"
                          ELSE IF device'[j] = d THEN "busy"
                          ELSE "idle"]_vars

\* a call found every device in status error and raised; a later call's
\* sweep has found one of them healthy again and has taken it
C38_Witness ==
    \E j, k \in Jobs :
        /\ rpc[j] = "raised"
        /\ rresult[j] = "NoRemoteDevice"
        /\ rpc[k] = "send"
        /\ probed[device[k]]
        /\ RemoteStatusOf(REMOTE_DEVICES, device[k]) = "busy"

\* ------------------------------------------------------------------- C39
\* C39: reading a result is destructive.  A request never has more than one
\* record on its result list; the poll that returns it removes it, so the
\* list is empty afterwards and stays empty once the job has finished; a
\* poll of an empty list returns pending; so a poll that follows the poll
\* which returned the terminal result of the same request returns pending,
\* although the job's result was pushed.
C39_ResultIsReadOnce ==
    /\ [](\A r \in Jobs : Len(ResultList(r)) <= 1)
    /\ [](poll.earlier \in {"success", "error"} =>
              /\ poll.returned = "pending"
              /\ ResultList(poll.request_id) = <<>>)
    /\ [][/\ poll' # poll =>
                 /\ poll'.returned \in {"success", "error"} =>
                        /\ Len(ResultList(poll'.request_id)) = 1
                        /\ results'[ResultKey(PushPrefix(variant),
                                    RequestId(poll'.request_id))] = <<>>
                 /\ ResultList(poll'.request_id) = <<>> =>
                        poll'.returned = "pending"
          /\ \A r \in Jobs :
                 (Finished(r) /\ ResultList(r) = <<>>) =>
                     results'[ResultKey(PushPrefix(variant),
                              RequestId(r))] = <<>>]_vars

\* the caller of request 1 got its success record and polled again: pending
C39_Witness ==
    /\ poll.request_id = 1
    /\ poll.earlier = "success"
    /\ poll.returned = "pending"
    /\ Finished(1)

\* ------------------------------------------------------------------- C40
\* C40: office-to-PDF conversion makes at most 3 attempts; 5 seconds are
\* slept between any two consecutive attempts, whatever the earlier one did;
\* the PDF path is returned at the first attempt that leaves a non-empty
\* PDF, and at no other moment; failure (None) is returned after the third
\* failed attempt, and not before.
C40_ThreeAttemptsFiveSecondsApart ==
    implementation # "none" =>
        /\ Len(conv_outcomes) <= convert_max_attempts
        /\ \A i \in 1..Len(conv_waits) : conv_waits[i] = RetryDelay
        /\ conv_pc = "attempt" => Len(conv_waits) = conv_attempt - 1
        /\ \A i \in 1..Len(conv_outcomes) :
               conv_outcomes[i] = "pdf" =>
                   /\ i = Len(conv_outcomes)
                   /\ conv_return = "pdf_path"
        /\ conv_return = "pdf_path" =>
               conv_outcomes[Len(conv_outcomes)] = "pdf"
        /\ conv_return = "None" =>
               /\ Len(conv_outcomes) = convert_max_attempts
               /\ \A i \in 1..Len(conv_outcomes) : conv_outcomes[i] # "pdf"

====
